---- MODULE Spec2Model ----
(***************************************************************************)
(* PERPHIVE order-flow worker (src/perphive-worker/src/index.ts).          *)
(*                                                                         *)
(* The module models the order-book pipeline (analyzeOrderBook,            *)
(* detectLevels, calculateWhaleConsensus, calculateTrend, generateSignal)  *)
(* as operators and the OrderFlowDO durable object (polling loop, REST     *)
(* read, WebSocket sessions) as a state machine.                           *)
(*                                                                         *)
(* Numbers.  A JavaScript number that holds a ratio (an imbalance, a       *)
(* 15-minute average) is kept in fixed point: the integer v stands for     *)
(* v / Scale.  Scale is a multiple of every divisor the venue responses of  *)
(* the actor runs produce, so the divisions are exact there; elsewhere a   *)
(* quotient is cut to a multiple of 1 / Scale.  NaN is the one non-number  *)
(* value the pipeline can produce (0 / 0); it is a value of its own and    *)
(* every operation treats it as JavaScript does.                           *)
(* Sizes and order prices are whole numbers; a mid price is kept in        *)
(* units of 1 / PriceScale.                                                *)
(*                                                                         *)
(* Time.  Date.now() is not stored.  A history entry carries its age       *)
(* (Date.now() - h.timestamp, in minutes), which is what every comparison  *)
(* of the source reads: h.timestamp > now - W  <=>  age < W.               *)
(***************************************************************************)
EXTENDS Integers, Sequences, FiniteSets, TLC

\* ------------------------------------------------------------- numbers

Scale == 36000
PriceScale == 10
NaN == -999999999
JsonNull == -999999998

NULL == [null |-> TRUE]

IsNaN(x) == x = NaN

Min2(a, b) == IF a <= b THEN a ELSE b
Max2(a, b) == IF a >= b THEN a ELSE b
Abs(x) == IF x < 0 THEN 0 - x ELSE x

\* JavaScript arithmetic on numbers that may be NaN.
FAdd(a, b) == IF IsNaN(a) \/ IsNaN(b) THEN NaN ELSE a + b
FAbs(a) == IF IsNaN(a) THEN NaN ELSE Abs(a)
\* Math.min(a, b): NaN if either argument is NaN.
FMin(a, b) == IF IsNaN(a) \/ IsNaN(b) THEN NaN ELSE Min2(a, b)
\* a > b, a < b: false as soon as one side is NaN.
FGt(a, b) == ~IsNaN(a) /\ ~IsNaN(b) /\ a > b
FLt(a, b) == ~IsNaN(a) /\ ~IsNaN(b) /\ a < b
\* a * k for a whole factor k.
FMul(a, k) == IF IsNaN(a) THEN NaN ELSE a * k
\* a / n for a count n > 0.
FDivCount(a, n) == IF IsNaN(a) THEN NaN ELSE a \div n
\* n / d of two whole numbers, as a fixed-point ratio; 0 / 0 is NaN.
\* (A non-zero numerator over 0 is +-Infinity in JavaScript; sizes are
\* never negative, so a zero sum of depths has a zero difference.)
Ratio(n, d) == IF d = 0 THEN NaN ELSE (Scale * n) \div d

\* Math.round(n / d) for whole n and d > 0: nearest integer, halves upwards.
RoundDiv(n, d) == (2 * n + d) \div (2 * d)
\* Math.round of a fixed-point number scaled by k: Math.round(v * k).
FRound(v, k) == IF IsNaN(v) THEN NaN ELSE RoundDiv(v * k, Scale)

\* ----------------------------------------------------------- sequences

\* A slice that keeps the whole array.
TakeAll(s, n) == s

\* array.slice(0, n)
Take(s, n) == SubSeq(s, 1, Min2(n, Len(s)))

RECURSIVE SumSizes(_)
SumSizes(orders) ==
    IF orders = <<>> THEN 0
    ELSE Head(orders).size + SumSizes(Tail(orders))

RECURSIVE FSum(_)
FSum(xs) == IF xs = <<>> THEN 0 ELSE FAdd(Head(xs), FSum(Tail(xs)))

\* ------------------------------------------------------ analyzeOrderBook

\* A whale filter that drops an order of exactly the threshold.
RECURSIVE WhalesAbove(_, _, _)
WhalesAbove(orders, side, whaleThreshold) ==
    IF orders = <<>> THEN <<>>
    ELSE LET o == Head(orders)
             rest == WhalesAbove(Tail(orders), side, whaleThreshold)
         IN  IF o.size > whaleThreshold
             THEN <<[exchange |-> "", side |-> side,
                     price |-> o.price, size |-> o.size]>> \o rest
             ELSE rest

RECURSIVE WhalesOf(_, _, _)
WhalesOf(orders, side, whaleThreshold) ==
    IF orders = <<>> THEN <<>>
    ELSE LET o == Head(orders)
             rest == WhalesOf(Tail(orders), side, whaleThreshold)
         IN  IF o.size >= whaleThreshold
             THEN <<[exchange |-> "", side |-> side,
                     price |-> o.price, size |-> o.size]>> \o rest
             ELSE rest

DepthLevels == 10
WhaleLevels == 20

Imbalance(bidDepth, askDepth) == Ratio(bidDepth - askDepth, bidDepth + askDepth)

analyzeOrderBook(book, whaleThreshold) ==
    LET bidDepth == SumSizes(Take(book.bids, DepthLevels))
        askDepth == SumSizes(Take(book.asks, DepthLevels))
    IN  [imbalance |-> Imbalance(bidDepth, askDepth),
         bidDepth  |-> bidDepth,
         askDepth  |-> askDepth,
         midPrice  |-> IF Len(book.bids) # 0 /\ Len(book.asks) # 0
                       THEN ((book.bids[1].price + book.asks[1].price)
                                * PriceScale) \div 2
                       ELSE 0,
         whales    |-> WhalesOf(Take(book.bids, WhaleLevels), "BID", whaleThreshold)
                       \o WhalesOf(Take(book.asks, WhaleLevels), "ASK", whaleThreshold)]

\* --------------------------------------------------------- detectLevels

\* const roundTo = asset === 'BTC' ? 100 : 10
RoundTo(asset) == IF asset = "BTC" THEN 100 ELSE 10
\* const sizeThreshold = asset === 'BTC' ? 10 : 100
SizeThreshold(asset) == IF asset = "BTC" THEN 10 ELSE 100
\* asset === 'BTC' ? price % 1000 === 0 : price % 100 === 0
IsRoundNumber(asset, price) ==
    IF asset = "BTC" THEN price % 1000 = 0 ELSE price % 100 = 0

Orders(book, side) == IF side = "bids" THEN book.bids ELSE book.asks

\* hlBook?.bids[0]?.[0] : undefined when the book is null or has no bid.
BestBid(book) ==
    IF book = NULL THEN 0
    ELSE IF Len(book.bids) = 0 THEN 0 ELSE book.bids[1].price

\* hlBook?.bids[0]?.[0] || okxBook?.bids[0]?.[0] || krakenBook?.bids[0]?.[0] || 0
LevelsMidPrice(hlBook, okxBook, krakenBook) ==
    IF BestBid(hlBook) # 0 THEN BestBid(hlBook)
    ELSE IF BestBid(okxBook) # 0 THEN BestBid(okxBook)
    ELSE BestBid(krakenBook)

\* The Map of the source, as the sequence of its entries in insertion order.
\* levels.get(roundedPrice) || {size: 0, ...}; existing.size += size;
\* existing.has<Venue> = true; levels.set(roundedPrice, existing)
UpsertLevel(levels, roundedPrice, size, venue) ==
    IF \E i \in 1..Len(levels) : levels[i].price = roundedPrice
    THEN [i \in 1..Len(levels) |->
            IF levels[i].price = roundedPrice
            THEN [levels[i] EXCEPT !.size = @ + size,
                                   !.hasHL = @ \/ venue = "Hyperliquid",
                                   !.hasOKX = @ \/ venue = "OKX",
                                   !.hasKraken = @ \/ venue = "Kraken"]
            ELSE levels[i]]
    ELSE Append(levels, [price |-> roundedPrice, size |-> size,
                         hasHL |-> venue = "Hyperliquid",
                         hasOKX |-> venue = "OKX",
                         hasKraken |-> venue = "Kraken"])

RECURSIVE AddOrders(_, _, _, _)
AddOrders(levels, orders, venue, roundTo) ==
    IF orders = <<>> THEN levels
    ELSE AddOrders(
            UpsertLevel(levels,
                        RoundDiv(Head(orders).price, roundTo) * roundTo,
                        Head(orders).size, venue),
            Tail(orders), venue, roundTo)

AddBook(levels, book, venue, side, asset) ==
    IF book = NULL THEN levels
    ELSE AddOrders(levels, Orders(book, side), venue, RoundTo(asset))

ExchangeCount(data) ==
    (IF data.hasHL THEN 1 ELSE 0) + (IF data.hasOKX THEN 1 ELSE 0)
        + (IF data.hasKraken THEN 1 ELSE 0)

\* Math.abs(price - midPrice) / midPrice > 0.05
\* A filter that discards nothing.
TooFarNever(price, midPrice) == FALSE

\* midPrice > 0 && Math.abs(price - midPrice) / midPrice > 0.05
TooFar(price, midPrice) == midPrice > 0 /\ 20 * Abs(price - midPrice) > midPrice

\* A score that gives a third venue nothing beyond the second.
LevelStrengthTwoVenues(data, asset) ==
    Min2(100,
         Min2(50, RoundDiv(data.size * 50, SizeThreshold(asset)))
         + (IF ExchangeCount(data) >= 2 THEN 15 ELSE 0)
         + (IF IsRoundNumber(asset, data.price) THEN 30 ELSE 0))

\* Math.min(100, Math.round(strength)); the bonuses are whole numbers, so the
\* rounding acts on the size term alone.
LevelStrength(data, asset) ==
    Min2(100,
         Min2(50, RoundDiv(data.size * 50, SizeThreshold(asset)))
         + (IF ExchangeCount(data) >= 2 THEN 15 ELSE 0)
         + (IF ExchangeCount(data) = 3 THEN 15 ELSE 0)
         + (IF IsRoundNumber(asset, data.price) THEN 30 ELSE 0))

LevelType(data, asset) ==
    IF data.size >= SizeThreshold(asset) * 2 THEN "wall"
    ELSE IF IsRoundNumber(asset, data.price) THEN "round"
    ELSE "cluster"

ScoreLevel(data, asset) ==
    [price         |-> data.price,
     strength      |-> LevelStrength(data, asset),
     type          |-> LevelType(data, asset),
     totalSize     |-> data.size,
     exchangeCount |-> ExchangeCount(data),
     isRoundNumber |-> IsRoundNumber(asset, data.price)]

RECURSIVE ScoreLevels(_, _, _)
ScoreLevels(levels, midPrice, asset) ==
    IF levels = <<>> THEN <<>>
    ELSE IF TooFar(Head(levels).price, midPrice)
         THEN ScoreLevels(Tail(levels), midPrice, asset)
         ELSE <<ScoreLevel(Head(levels), asset)>>
                 \o ScoreLevels(Tail(levels), midPrice, asset)

\* The scored levels left in the Map's order.
KeepOrder(result) == result

\* result.sort((a, b) => b.strength - a.strength): a stable sort, so equal
\* strengths keep the Map's order.
RECURSIVE InsertByStrength(_, _)
InsertByStrength(sorted, x) ==
    IF sorted = <<>> THEN <<x>>
    ELSE IF Head(sorted).strength >= x.strength
         THEN <<Head(sorted)>> \o InsertByStrength(Tail(sorted), x)
         ELSE <<x>> \o sorted

RECURSIVE SortByStrength(_)
SortByStrength(result) ==
    IF result = <<>> THEN <<>>
    ELSE InsertByStrength(SortByStrength(SubSeq(result, 1, Len(result) - 1)),
                          result[Len(result)])

TopLevels == 5

detectLevels(hlBook, okxBook, krakenBook, side, asset) ==
    LET levels ==
            AddBook(AddBook(AddBook(<<>>, hlBook, "Hyperliquid", side, asset),
                            okxBook, "OKX", side, asset),
                    krakenBook, "Kraken", side, asset)
        midPrice == LevelsMidPrice(hlBook, okxBook, krakenBook)
    IN  Take(SortByStrength(ScoreLevels(levels, midPrice, asset)), TopLevels)

\* ----------------------------------------------- calculateWhaleConsensus

RECURSIVE SelectSide(_, _)
SelectSide(whaleOrders, side) ==
    IF whaleOrders = <<>> THEN <<>>
    ELSE IF Head(whaleOrders).side = side
         THEN <<Head(whaleOrders)>> \o SelectSide(Tail(whaleOrders), side)
         ELSE SelectSide(Tail(whaleOrders), side)

\* The orders counted instead of their venues.
ExchangesOfCounted(orders) == Len(orders)

\* new Set(orders.map(w => w.exchange)).size
ExchangesOf(orders) == Cardinality({orders[i].exchange : i \in 1..Len(orders)})

\* A strength with no bonus for the number of whale orders.
ConsensusStrengthNoCount(sideSize, totalSize, exchanges, count) ==
    Min2(100, RoundDiv(100 * sideSize - 50 * totalSize, totalSize) + exchanges * 15)

\* Math.min(100, Math.round((ratio - 0.5) * 100 + exchanges * 15 + bonus)),
\* with ratio = sideSize / totalSize the winning side's share.
ConsensusStrength(sideSize, totalSize, exchanges, count) ==
    Min2(100, RoundDiv(100 * sideSize - 50 * totalSize, totalSize)
              + exchanges * 15 + (IF count >= 3 THEN 10 ELSE 0))

calculateWhaleConsensus(whaleOrders) ==
    LET bids == SelectSide(whaleOrders, "BID")
        asks == SelectSide(whaleOrders, "ASK")
        bidSize == SumSizes(bids)
        askSize == SumSizes(asks)
        exchangesWithBids == ExchangesOf(bids)
        exchangesWithAsks == ExchangesOf(asks)
        totalSize == bidSize + askSize
        \* bidRatio > 0.6, bidRatio < 0.4 with bidRatio = bidSize / totalSize
        long == totalSize > 0 /\ 10 * bidSize > 6 * totalSize
                    /\ exchangesWithBids >= 2
        short == totalSize > 0 /\ ~long /\ 10 * bidSize < 4 * totalSize
                    /\ exchangesWithAsks >= 2
        base == IF long
                THEN ConsensusStrength(bidSize, totalSize, exchangesWithBids, Len(bids))
                ELSE IF short
                THEN ConsensusStrength(askSize, totalSize, exchangesWithAsks, Len(asks))
                ELSE 0
    IN  [signal            |-> IF long THEN "LONG" ELSE IF short THEN "SHORT"
                               ELSE "NEUTRAL",
         bidSize           |-> bidSize,
         askSize           |-> askSize,
         bidCount          |-> Len(bids),
         askCount          |-> Len(asks),
         exchangesWithBids |-> exchangesWithBids,
         exchangesWithAsks |-> exchangesWithAsks,
         strength          |-> IF (long /\ exchangesWithBids = 3)
                                    \/ (short /\ exchangesWithAsks = 3)
                               THEN Min2(100, base + 15)
                               ELSE base]

\* ------------------------------------------------------- calculateTrend

FifteenMin == 15
TwentyMin == 20

\* A window that is the whole history.
RecentAll(history) == history

\* A window that is every entry the history retains.
RecentRetained(history) == SelectSeq(history, LAMBDA h : h.age < TwentyMin)

RECURSIVE Recent(_)
\* history.filter(h => h.timestamp > fifteenMinAgo)
Recent(history) ==
    IF history = <<>> THEN <<>>
    ELSE IF Head(history).age < FifteenMin
         THEN <<Head(history)>> \o Recent(Tail(history))
         ELSE Recent(Tail(history))

Reading(h, asset) == IF asset = "btc" THEN h.btcImbalance ELSE h.ethImbalance

Readings(recent, asset) == [i \in 1..Len(recent) |-> Reading(recent[i], asset)]

\* 0.05 in fixed point
TrendThreshold == Scale \div 20

calculateTrend(history, asset) ==
    LET recent == Recent(history)
        values == Readings(recent, asset)
        totalCount == Len(recent)
        avg == FDivCount(FSum(values), totalCount)
        bullishCount == Cardinality({i \in 1..totalCount : FGt(values[i], TrendThreshold)})
        bearishCount == Cardinality({i \in 1..totalCount : FLt(values[i], 0 - TrendThreshold)})
    IN  IF totalCount = 0 THEN [avg |-> 0, trend |-> "NEUTRAL"]
        ELSE [avg   |-> avg,
              \* bullishCount / totalCount > 0.6 && avg > 0.05
              trend |-> IF 10 * bullishCount > 6 * totalCount /\ FGt(avg, TrendThreshold)
                        THEN "BULLISH"
                        ELSE IF 10 * bearishCount > 6 * totalCount
                                    /\ FLt(avg, 0 - TrendThreshold)
                        THEN "BEARISH"
                        ELSE "NEUTRAL"]

\* ------------------------------------------------------- generateSignal

\* const emptyData = { price: 0, imbalance: 0, bidDepth: 0, askDepth: 0, ... }
emptyData == [price |-> 0, imbalance |-> 0, bidDepth |-> 0, askDepth |-> 0]

OrEmpty(data) == IF data = NULL THEN emptyData ELSE data

\* The three venues with no filter: a failed venue counted as a zero reading.
EveryExchange(hlData, okxData, krakenData) ==
    <<OrEmpty(hlData), OrEmpty(okxData), OrEmpty(krakenData)>>

\* [hlData, okxData, krakenData].filter(e => e !== null)
ValidExchanges(hlData, okxData, krakenData) ==
    (IF hlData = NULL THEN <<>> ELSE <<hlData>>)
        \o (IF okxData = NULL THEN <<>> ELSE <<okxData>>)
        \o (IF krakenData = NULL THEN <<>> ELSE <<krakenData>>)

\* A mean over three venues, however many are present.
CombinedImbalanceOverThree(hlData, okxData, krakenData) ==
    LET valid == ValidExchanges(hlData, okxData, krakenData)
    IN  FDivCount(FSum([i \in 1..Len(valid) |-> valid[i].imbalance]), 3)

CombinedImbalance(hlData, okxData, krakenData) ==
    LET valid == ValidExchanges(hlData, okxData, krakenData)
    IN  IF Len(valid) > 0
        THEN FDivCount(FSum([i \in 1..Len(valid) |-> valid[i].imbalance]), Len(valid))
        ELSE 0

\* Math.round(spread * 10) / 10 of ((hl.price - okx.price) / okx.price) * 10000,
\* in tenths of a basis point.
CrossExchangeSpread(hl, okx) ==
    IF hl.price > 0 /\ okx.price > 0
    THEN RoundDiv((hl.price - okx.price) * 100000, okx.price)
    ELSE 0

\* 0.10 in fixed point
ActionThreshold == Scale \div 10

\* An action taken from the average alone.
SignalActionByAverage(imbalance15m, trend) ==
    IF FGt(imbalance15m, ActionThreshold) THEN "LONG"
    ELSE IF FLt(imbalance15m, 0 - ActionThreshold) THEN "SHORT"
    ELSE "WAIT"

SignalAction(imbalance15m, trend) ==
    IF trend = "BULLISH" /\ FGt(imbalance15m, ActionThreshold) THEN "LONG"
    ELSE IF trend = "BEARISH" /\ FLt(imbalance15m, 0 - ActionThreshold) THEN "SHORT"
    ELSE "WAIT"

MaxConfidence == 95

\* A directional confidence that starts from 40.
BaseConfidenceFrom40(action, imbalance15m) ==
    IF action = "WAIT" THEN FMul(FAbs(imbalance15m), 100)
    ELSE FMin(MaxConfidence * Scale,
              FAdd(40 * Scale, FMul(FAbs(imbalance15m), 150)))

\* let confidence = Math.abs(imbalance15m) * 100, replaced by
\* Math.min(95, 50 + |imbalance15m| * 150) when the action is LONG or SHORT.
BaseConfidence(action, imbalance15m) ==
    IF action = "WAIT" THEN FMul(FAbs(imbalance15m), 100)
    ELSE FMin(MaxConfidence * Scale,
              FAdd(50 * Scale, FMul(FAbs(imbalance15m), 150)))

\* An absent venue counted as agreeing.
AgreesOrAbsent(data, action) ==
    data = NULL \/ (action = "LONG" /\ FGt(data.imbalance, 0))
                \/ (action = "SHORT" /\ FLt(data.imbalance, 0))

Agrees(data, action) ==
    data # NULL /\ ((action = "LONG" /\ FGt(data.imbalance, 0))
                      \/ (action = "SHORT" /\ FLt(data.imbalance, 0)))

Agreeing(hlData, okxData, krakenData, action) ==
    (IF Agrees(hlData, action) THEN 1 ELSE 0)
        + (IF Agrees(okxData, action) THEN 1 ELSE 0)
        + (IF Agrees(krakenData, action) THEN 1 ELSE 0)

Boost(confidence, cond, points) ==
    IF cond THEN FMin(MaxConfidence * Scale, FAdd(confidence, points * Scale))
    ELSE confidence

SignalConfidence(action, imbalance15m, combinedImbalance, agreeing) ==
    LET c0 == BaseConfidence(action, imbalance15m)
        c1 == Boost(c0, (action = "LONG" /\ FGt(combinedImbalance, ActionThreshold))
                         \/ (action = "SHORT" /\ FLt(combinedImbalance, 0 - ActionThreshold)),
                    10)
        c2 == Boost(c1, agreeing >= 2, 10)
        c3 == Boost(c2, agreeing = 3, 5)
    IN  IF action = "WAIT" THEN c0 ELSE c3

generateSignal(asset, hlData, okxData, krakenData, whaleOrders, supportLevels, resistanceLevels, imbalance15m, trend) ==
    LET hl == OrEmpty(hlData)
        okx == OrEmpty(okxData)
        kraken == OrEmpty(krakenData)
        combinedImbalance == CombinedImbalance(hlData, okxData, krakenData)
        action == SignalAction(imbalance15m, trend)
        confidence == SignalConfidence(action, imbalance15m, combinedImbalance,
                                       Agreeing(hlData, okxData, krakenData, action))
    IN  [asset               |-> asset,
         action              |-> action,
         \* Math.round(confidence)
         confidence          |-> FRound(confidence, 1),
         hyperliquid         |-> hl,
         okx                 |-> okx,
         kraken              |-> kraken,
         crossExchangeSpread |-> CrossExchangeSpread(hl, okx),
         \* Math.round(x * 1000) / 1000, in thousandths
         combinedImbalance   |-> FRound(combinedImbalance, 1000),
         imbalance15m        |-> FRound(imbalance15m, 1000),
         trend               |-> trend,
         whaleOrders         |-> whaleOrders,
         whaleConsensus      |-> calculateWhaleConsensus(whaleOrders),
         supportLevels       |-> supportLevels,
         resistanceLevels    |-> resistanceLevels]

\* A stamp put on every venue's data, present or not.
StampEvery(data, now) == [timestamp |-> now] @@ OrEmpty(data)

\* const now = Date.now(); emptyData carries timestamp: now, while a present
\* venue's data keeps the timestamp it was given (part of the input, not
\* modelled).
StampEmpty(data, now) ==
    IF data = NULL THEN [timestamp |-> now] @@ emptyData ELSE data

\* generateSignal with the clock it reads: timestamp: now in the Signal and in
\* the zeroed data of every absent venue.
generateSignalAt(now, asset, hlData, okxData, krakenData, whaleOrders, supportLevels, resistanceLevels, imbalance15m, trend) ==
    [timestamp |-> now]
        @@ [generateSignal(asset, hlData, okxData, krakenData, whaleOrders,
                           supportLevels, resistanceLevels, imbalance15m, trend)
                EXCEPT !.hyperliquid = StampEmpty(hlData, now),
                       !.okx = StampEmpty(okxData, now),
                       !.kraken = StampEmpty(krakenData, now)]

\* ---------------------------------------------------------- messages

NoMsg == [none |-> TRUE]
Pong == [text |-> "pong"]

\* JSON.stringify writes a NaN number as null.
JsonNumber(x) == IF IsNaN(x) THEN JsonNull ELSE x

JsonExchangeData(d) == [d EXCEPT !.imbalance = JsonNumber(@)]

JsonSignal(sig) ==
    [sig EXCEPT !.confidence = JsonNumber(@),
                !.combinedImbalance = JsonNumber(@),
                !.imbalance15m = JsonNumber(@),
                !.hyperliquid = JsonExchangeData(@),
                !.okx = JsonExchangeData(@),
                !.kraken = JsonExchangeData(@)]

\* JSON.stringify(data) of a { btc, eth } pair
Stringify(data) == [btc |-> JsonSignal(data.btc), eth |-> JsonSignal(data.eth)]

\* ------------------------------------------------------------- bounds

\* WebSocket connections that can be open at once.
MaxSubs == 2
\* REST reads that can wait for their fetchAllData at once.
MaxReads == 1
\* Least number of minutes between two consecutive history entries.
MinGap == 7

WS == 1..MaxSubs
Dts == {MinGap, 2 * MinGap}

\* ------------------------------------------------------- venue responses

Order(p, s) == [price |-> p, size |-> s]

\* A venue answering with no levels: data.levels || [[], []]
EmptyBook == [bids |-> <<>>, asks |-> <<>>]

BtcBookHL == [bids |-> <<Order(96000, 6)>>, asks |-> <<Order(96100, 2)>>]
BtcBookOKX == [bids |-> <<Order(96010, 6)>>, asks |-> <<Order(96110, 2)>>]
BtcBookKraken == [bids |-> <<Order(95990, 6)>>, asks |-> <<Order(96090, 2)>>]
EthBookHL == [bids |-> <<Order(3300, 60)>>, asks |-> <<Order(3310, 20)>>]
EthBookOKX == [bids |-> <<Order(3301, 60)>>, asks |-> <<Order(3311, 20)>>]
EthBookKraken == [bids |-> <<Order(3299, 60)>>, asks |-> <<Order(3309, 20)>>]

\* The six fetches of one pass: each fails (null) or returns the venue's book.
SubsetResults ==
    [hlBtc : {NULL, BtcBookHL}, hlEth : {NULL, EthBookHL},
     okxBtc : {NULL, BtcBookOKX}, okxEth : {NULL, EthBookOKX},
     krakenBtc : {NULL, BtcBookKraken}, krakenEth : {NULL, EthBookKraken}]

AllPresent ==
    [hlBtc |-> BtcBookHL, hlEth |-> EthBookHL,
     okxBtc |-> BtcBookOKX, okxEth |-> EthBookOKX,
     krakenBtc |-> BtcBookKraken, krakenEth |-> EthBookKraken]

AllAbsent ==
    [hlBtc |-> NULL, hlEth |-> NULL, okxBtc |-> NULL, okxEth |-> NULL,
     krakenBtc |-> NULL, krakenEth |-> NULL]

\* Hyperliquid answering BTC without levels, alone or beside OKX.
EmptyResults ==
    {[AllPresent EXCEPT !.hlBtc = EmptyBook, !.okxBtc = NULL, !.krakenBtc = NULL],
     [AllPresent EXCEPT !.hlBtc = EmptyBook, !.krakenBtc = NULL]}

\* The responses the cycle-level runs draw from.
Results == SubsetResults \cup EmptyResults

\* The responses the full actor draws from.
ActorResults ==
    {AllPresent, AllAbsent, [AllPresent EXCEPT !.krakenBtc = NULL, !.krakenEth = NULL]}

\* ------------------------------------------- fetchAllData, fetchWithTrend

\* analyzeOrderBook(book, 5) for BTC, analyzeOrderBook(book, 50) for ETH
WhaleThreshold(asset) == IF asset = "BTC" THEN 5 ELSE 50

\* book ? analyzeOrderBook(book, threshold) : null
Analysis(book, asset) ==
    IF book = NULL THEN NULL ELSE analyzeOrderBook(book, WhaleThreshold(asset))

\* analysis ? { price: analysis.midPrice, imbalance: ..., ... } : null
ExchangeDataOf(analysis) ==
    IF analysis = NULL THEN NULL
    ELSE [price     |-> analysis.midPrice,
          imbalance |-> analysis.imbalance,
          bidDepth  |-> analysis.bidDepth,
          askDepth  |-> analysis.askDepth]

\* if (analysis) analysis.whales.forEach(w => { w.exchange = name; whales.push(w) })
TaggedWhales(analysis, exchange) ==
    IF analysis = NULL THEN <<>>
    ELSE [i \in 1..Len(analysis.whales) |->
            [analysis.whales[i] EXCEPT !.exchange = exchange]]

\* [hl?.imbalance, okx?.imbalance, kraken?.imbalance].filter(i => i !== undefined),
\* then the mean, 0 when the list is empty.
CurrentImbalance(hl, okx, kraken) ==
    LET present == (IF hl = NULL THEN <<>> ELSE <<hl.imbalance>>)
                    \o (IF okx = NULL THEN <<>> ELSE <<okx.imbalance>>)
                    \o (IF kraken = NULL THEN <<>> ELSE <<kraken.imbalance>>)
    IN  IF Len(present) > 0 THEN FDivCount(FSum(present), Len(present)) ELSE 0

\* What both passes derive from one asset's three books before generateSignal.
AssetInputs(asset, hlBook, okxBook, krakenBook) ==
    LET hl == Analysis(hlBook, asset)
        okx == Analysis(okxBook, asset)
        kraken == Analysis(krakenBook, asset)
    IN  [hlData           |-> ExchangeDataOf(hl),
         okxData          |-> ExchangeDataOf(okx),
         krakenData       |-> ExchangeDataOf(kraken),
         imbalance        |-> CurrentImbalance(hl, okx, kraken),
         whaleOrders      |-> TaggedWhales(hl, "Hyperliquid") \o TaggedWhales(okx, "OKX")
                                \o TaggedWhales(kraken, "Kraken"),
         supportLevels    |-> detectLevels(hlBook, okxBook, krakenBook, "bids", asset),
         resistanceLevels |-> detectLevels(hlBook, okxBook, krakenBook, "asks", asset)]

PassInputs(r) ==
    [btc |-> AssetInputs("BTC", r.hlBtc, r.okxBtc, r.krakenBtc),
     eth |-> AssetInputs("ETH", r.hlEth, r.okxEth, r.krakenEth)]

\* PassInputs over the bounded responses, computed once.
Inputs == [r \in Results |-> PassInputs(r)] @@ <<>>

AssetSignal(asset, in, imbalance15m, trend) ==
    generateSignal(asset, in.hlData, in.okxData, in.krakenData, in.whaleOrders,
                   in.supportLevels, in.resistanceLevels, imbalance15m, trend)

\* A pass that gives generateSignal its instant imbalance as the average.
fetchAllDataInstant(r) ==
    [btc |-> AssetSignal("BTC", Inputs[r].btc, Inputs[r].btc.imbalance, "NEUTRAL"),
     eth |-> AssetSignal("ETH", Inputs[r].eth, Inputs[r].eth.imbalance, "NEUTRAL")]

\* fetchAllData: generateSignal is called without imbalance15m and trend, which
\* default to 0 and 'NEUTRAL'.
fetchAllData(r) ==
    [btc |-> AssetSignal("BTC", Inputs[r].btc, 0, "NEUTRAL"),
     eth |-> AssetSignal("ETH", Inputs[r].eth, 0, "NEUTRAL")]

\* The entry pushed by fetchWithTrend.
ImbalanceEntry(r) ==
    [age          |-> 0,
     btcImbalance |-> Inputs[r].btc.imbalance,
     ethImbalance |-> Inputs[r].eth.imbalance]

\* The clock moved on by dt since the last entry was pushed.
Aged(history, dt) == [i \in 1..Len(history) |-> [history[i] EXCEPT !.age = @ + dt]]

\* A history that is never trimmed.
TrimNone(history) == history

RECURSIVE Trim(_)
\* this.imbalanceHistory.filter(h => h.timestamp > twentyMinAgo)
Trim(history) ==
    IF history = <<>> THEN <<>>
    ELSE IF Head(history).age < TwentyMin
         THEN <<Head(history)>> \o Trim(Tail(history))
         ELSE Trim(Tail(history))

\* this.imbalanceHistory.push({...}); this.imbalanceHistory = ...filter(...)
RecordHistory(history, r, dt) == Trim(Append(Aged(history, dt), ImbalanceEntry(r)))

\* A pair whose trends are computed before the pass's own entry is pushed.
TrendPairBefore(r, history) ==
    LET before == SubSeq(history, 1, Len(history) - 1)
        btcTrend == calculateTrend(before, "btc")
        ethTrend == calculateTrend(before, "eth")
    IN  [btc |-> AssetSignal("BTC", Inputs[r].btc, btcTrend.avg, btcTrend.trend),
         eth |-> AssetSignal("ETH", Inputs[r].eth, ethTrend.avg, ethTrend.trend)]

\* The pair fetchWithTrend returns, from the books and the recorded history.
TrendPair(r, history) ==
    LET btcTrend == calculateTrend(history, "btc")
        ethTrend == calculateTrend(history, "eth")
    IN  [btc |-> AssetSignal("BTC", Inputs[r].btc, btcTrend.avg, btcTrend.trend),
         eth |-> AssetSignal("ETH", Inputs[r].eth, ethTrend.avg, ethTrend.trend)]

\* fetchWithTrend, with the place where an unexpected error escapes it:
\* "none", "analysis" (before the history is written) or "synthesis" (after).
fetchWithTrend(history, r, dt, throwAt) ==
    IF throwAt = "analysis" THEN [threw |-> TRUE, history |-> history]
    ELSE IF throwAt = "synthesis"
         THEN [threw |-> TRUE, history |-> RecordHistory(history, r, dt)]
         ELSE LET recorded == RecordHistory(history, r, dt)
              IN  [threw |-> FALSE, history |-> recorded,
                   value |-> TrendPair(r, recorded)]

\* -------------------------------------------------------------- state

VARIABLES
    lastData,          \* this.lastData: NULL or the { btc, eth } pair
    imbalanceHistory,  \* this.imbalanceHistory
    sessions,          \* this.sessions
    pollPc,            \* startPolling: "fetching" (awaiting fetchWithTrend),
                       \* "sleeping" (awaiting the 2 s timer)
    activeCycles,      \* poll cycles whose fetches are issued and whose
                       \* broadcast has not completed
    reads,             \* REST reads awaiting fetchAllData
    sent,              \* what the last step sent to each WebSocket
    response,          \* the body of the last step's REST response
    event,             \* the last step: its handler and inputs
    call,              \* a pipeline function applied on its own: its arguments
    ret                \* and what it returned

actor == <<lastData, imbalanceHistory, sessions, pollPc, activeCycles, reads,
           sent, response, event>>
vars == <<actor, call, ret>>

NoCall == [fn |-> "none"]

NoSends == [w \in WS |-> NoMsg]

Event(type, results, failed) == [type |-> type, results |-> results, failed |-> failed]

\* constructor: sessions = new Set(), lastData = null, imbalanceHistory = [],
\* and startPolling() runs up to its first await, the six fetches issued.
Constructed ==
    /\ lastData = NULL
    /\ imbalanceHistory = <<>>
    /\ sessions = {}
    /\ pollPc = "fetching"
    /\ activeCycles = 1
    /\ reads = 0
    /\ sent = NoSends
    /\ response = NoMsg
    /\ event = Event("constructor", NULL, {})

Init ==
    /\ Constructed
    /\ call = NoCall
    /\ ret = NULL

\* ----------------------------------------------------------- broadcast

\* A loop that returns after its first send: only the first session of the
\* Set receives.
broadcastToOne(sess, failing, message) ==
    LET first == IF sess = {} THEN 0 ELSE CHOOSE w \in sess : \A v \in sess : w <= v
    IN  [sessions |-> sess \ (failing \cap {first}),
         sent     |-> [w \in WS |-> IF w = first /\ w \notin failing
                                    THEN message ELSE NoMsg]]

\* A loop with the try around it instead of inside it: the first send that
\* throws (in the Set's order) ends the loop.
broadcastAborting(sess, failing, message) ==
    LET bad == sess \cap failing
        first == IF bad = {} THEN 0 ELSE CHOOSE w \in bad : \A v \in bad : w <= v
    IN  [sessions |-> IF bad = {} THEN sess ELSE sess \ {first},
         sent     |-> [w \in WS |-> IF w \in sess /\ (bad = {} \/ w < first)
                                    THEN message ELSE NoMsg]]

\* for (const ws of this.sessions) { try { ws.send(message) }
\*                                   catch (e) { this.sessions.delete(ws) } }
\* failing: the sessions whose send throws.
broadcast(sess, failing, message) ==
    [sessions |-> sess \ failing,
     sent     |-> [w \in WS |-> IF w \in sess \ failing THEN message ELSE NoMsg]]

\* ------------------------------------------------------- startPolling

\* An assignment made before the await settles: a throw clears the pair.
TryStoreClearing(old, res) == IF res.threw THEN NULL ELSE res.value

\* try { this.lastData = await this.fetchWithTrend(); ... } catch (e) { ... }
TryStore(old, res) == IF res.threw THEN old ELSE res.value

\* A timer that re-arms itself (setInterval) instead of the awaited setTimeout.
LoopAlwaysReady(pc) == TRUE

\* The loop issues the next cycle's fetches only from its own await of the timer.
LoopReady(pc) == pc = "sleeping"

\* A loop whose try/catch is outside the while: a throw ends it.
PcStoppedByThrow(threw) == IF threw THEN "stopped" ELSE "sleeping"

\* await new Promise(r => setTimeout(r, 2000)) follows the try/catch.
PcAfterCycle(threw) == "sleeping"

\* One iteration of the loop, from the return (or throw) of fetchWithTrend to
\* the arming of the timer.  The bound names hold values computed once;
\* failing is the set of sessions whose send throws.
PollCycle(r, dt, throwAt) ==
    \E res \in {fetchWithTrend(imbalanceHistory, r, dt, throwAt)} :
    \E stored \in {TryStore(lastData, res)} :
    \E message \in {IF res.threw THEN NoMsg ELSE Stringify(stored)} :
    \E failing \in (IF res.threw THEN {{}} ELSE SUBSET sessions) :
    \E b \in {IF res.threw
              THEN [sessions |-> sessions, sent |-> NoSends]
              ELSE broadcast(sessions, failing, message)} :
        /\ pollPc = "fetching"
        /\ imbalanceHistory' = res.history
        /\ lastData' = stored
        /\ sessions' = b.sessions
        /\ sent' = b.sent
        /\ pollPc' = PcAfterCycle(res.threw)
        /\ activeCycles' = activeCycles - 1
        /\ response' = NoMsg
        /\ event' = IF res.threw THEN Event("cycleThrew", NULL, {})
                    ELSE Event("cycle", r, failing)
        /\ UNCHANGED <<reads, call, ret>>

PollCycleCompletes(RS, DS) ==
    \E r \in RS, dt \in DS : PollCycle(r, dt, "none")

PollCycleThrows(RS, DS) ==
    \E r \in RS, dt \in DS, throwAt \in {"analysis", "synthesis"} :
        PollCycle(r, dt, throwAt)

\* The timer fires: the loop goes round and fetchWithTrend issues its fetches.
TimerFires ==
    /\ LoopReady(pollPc)
    /\ pollPc' = "fetching"
    /\ activeCycles' = activeCycles + 1
    /\ sent' = NoSends
    /\ response' = NoMsg
    /\ event' = Event("timer", NULL, {})
    /\ UNCHANGED <<lastData, imbalanceHistory, sessions, reads, call, ret>>

\* ------------------------------------------------------ OrderFlowDO.fetch

\* A registration that leaves the first snapshot to the next broadcast.
SubscribeSilent(w) ==
    /\ w \notin sessions
    /\ sessions' = sessions \cup {w}
    /\ sent' = NoSends
    /\ response' = NoMsg
    /\ event' = Event("subscribe", NULL, {})
    /\ UNCHANGED <<lastData, imbalanceHistory, pollPc, activeCycles, reads, call, ret>>

\* Upgrade: websocket. this.sessions.add(server); if (this.lastData) server.send(...)
Subscribe(w) ==
    /\ w \notin sessions
    /\ sessions' = sessions \cup {w}
    /\ sent' = [NoSends EXCEPT ![w] = IF lastData # NULL THEN Stringify(lastData)
                                      ELSE NoMsg]
    /\ response' = NoMsg
    /\ event' = Event("subscribe", NULL, {})
    /\ UNCHANGED <<lastData, imbalanceHistory, pollPc, activeCycles, reads, call, ret>>

\* REST read with this.lastData set.
ReadStored ==
    /\ lastData # NULL
    /\ response' = Stringify(lastData)
    /\ sent' = NoSends
    /\ event' = Event("read", NULL, {})
    /\ UNCHANGED <<lastData, imbalanceHistory, sessions, pollPc, activeCycles, reads, call, ret>>

\* REST read with this.lastData null: fetchAllData() is awaited.
ReadStarts ==
    /\ lastData = NULL
    /\ reads < MaxReads
    /\ reads' = reads + 1
    /\ sent' = NoSends
    /\ response' = NoMsg
    /\ event' = Event("readStart", NULL, {})
    /\ UNCHANGED <<lastData, imbalanceHistory, sessions, pollPc, activeCycles, call, ret>>

\* An assignment signal by signal that stops half way over a stored pair.
ReadStoreTorn(old, data) == IF old = NULL THEN data ELSE [old EXCEPT !.btc = data.btc]

\* const data = await fetchAllData(); this.lastData = data; return Response(data)
ReadStore(old, data) == data

\* A read whose one-off pass is fetchWithTrend: it records its reading.
ReadCompletesRecording(RS) ==
    \E r \in RS, dt \in Dts :
    \E data \in {fetchAllData(r)} :
        /\ reads > 0
        /\ reads' = reads - 1
        /\ lastData' = ReadStore(lastData, data)
        /\ imbalanceHistory' = RecordHistory(imbalanceHistory, r, dt)
        /\ response' = Stringify(data)
        /\ sent' = NoSends
        /\ event' = Event("readDone", r, {})
        /\ UNCHANGED <<sessions, pollPc, activeCycles, call, ret>>

ReadCompletes(RS) ==
    \E r \in RS :
    \E data \in {fetchAllData(r)} :
        /\ reads > 0
        /\ reads' = reads - 1
        /\ lastData' = ReadStore(lastData, data)
        /\ response' = Stringify(data)
        /\ sent' = NoSends
        /\ event' = Event("readDone", r, {})
        /\ UNCHANGED <<imbalanceHistory, sessions, pollPc, activeCycles, call, ret>>

\* ------------------------------------- webSocketMessage / Close / Error

\* A handler that answers every message with 'pong'.
WebSocketMessageEcho(w, message) ==
    /\ w \in sessions
    /\ sent' = [NoSends EXCEPT ![w] = Pong]
    /\ response' = NoMsg
    /\ event' = Event(IF message = "ping" THEN "ping" ELSE "message", NULL, {})
    /\ UNCHANGED <<lastData, imbalanceHistory, sessions, pollPc, activeCycles, reads, call, ret>>

\* if (message === 'ping') ws.send('pong')
WebSocketMessage(w, message) ==
    /\ w \in sessions
    /\ sent' = [NoSends EXCEPT ![w] = IF message = "ping" THEN Pong ELSE NoMsg]
    /\ response' = NoMsg
    /\ event' = Event(IF message = "ping" THEN "ping" ELSE "message", NULL, {})
    /\ UNCHANGED <<lastData, imbalanceHistory, sessions, pollPc, activeCycles, reads, call, ret>>

\* A close handler that leaves the registry as it is.
WebSocketCloseKept(w) ==
    /\ w \in sessions
    /\ sessions' = sessions
    /\ sent' = NoSends
    /\ response' = NoMsg
    /\ event' = Event("close", NULL, {})
    /\ UNCHANGED <<lastData, imbalanceHistory, pollPc, activeCycles, reads, call, ret>>

\* this.sessions.delete(ws)
WebSocketClose(w) ==
    /\ w \in sessions
    /\ sessions' = sessions \ {w}
    /\ sent' = NoSends
    /\ response' = NoMsg
    /\ event' = Event("close", NULL, {})
    /\ UNCHANGED <<lastData, imbalanceHistory, pollPc, activeCycles, reads, call, ret>>

WebSocketError(w) ==
    /\ w \in sessions
    /\ sessions' = sessions \ {w}
    /\ sent' = NoSends
    /\ response' = NoMsg
    /\ event' = Event("error", NULL, {})
    /\ UNCHANGED <<lastData, imbalanceHistory, pollPc, activeCycles, reads, call, ret>>

\* ------------------------------------------------------ specifications

\* The whole actor.
Next ==
    \/ PollCycleCompletes(ActorResults, Dts)
    \/ PollCycleThrows(ActorResults, Dts)
    \/ TimerFires
    \/ \E w \in WS : Subscribe(w)
    \/ ReadStored
    \/ ReadStarts
    \/ ReadCompletes(ActorResults)
    \/ \E w \in WS, message \in {"ping", "hello"} : WebSocketMessage(w, message)
    \/ \E w \in WS : WebSocketClose(w)
    \/ \E w \in WS : WebSocketError(w)

Spec == Init /\ [][Next]_vars

\* The polling loop and its subscribers over every subset of failing fetches.
CycleNext ==
    \/ PollCycleCompletes(Results, {2 * MinGap})
    \/ TimerFires
    \/ Subscribe(1)
    \/ WebSocketClose(1)

CycleSpec == Init /\ [][CycleNext]_vars

\* The step that ends a cycle, whichever way: the loop leaves its await of
\* fetchWithTrend for its await of the timer.
CycleEnds == pollPc = "fetching" /\ pollPc' = "sleeping"

\* The actor, its timer firing and every fetch settling: a cycle whose fetches
\* are out ends (it completes or throws), and an armed timer fires.
FairSpec ==
    /\ Spec
    /\ WF_pollPc(CycleEnds)
    /\ WF_pollPc(TimerFires)

\* ------------------------------------- the pipeline's functions on their own

\* Most levels on one side of a book given to analyzeOrderBook on its own.
MaxBookLevels == 2
\* The 15-minute averages given to generateSignal are the multiples of
\* 1 / AvgSteps in [-1, 1].
AvgSteps == 20

FnSizes == {2, 6}

SideOf(sizes, first, step) ==
    [i \in 1..Len(sizes) |-> Order(first + step * (i - 1), sizes[i])]

SizeSeqs == UNION {[1..n -> FnSizes] : n \in 0..MaxBookLevels}

FnBooks ==
    {[bids |-> SideOf(b, 96000, 0 - 10), asks |-> SideOf(a, 96010, 10)] :
        b \in SizeSeqs, a \in SizeSeqs}

BookCalls ==
    {[fn |-> "analyzeOrderBook", book |-> b, whaleThreshold |-> WhaleThreshold("BTC")] :
        b \in FnBooks}

\* Books deeper than the depth window: DepthLevels levels of size 2 on each
\* side, followed by a tail.
DeepSide(tail, first, step) ==
    SideOf([i \in 1..DepthLevels |-> 2] \o tail, first, step)

DeepBooks ==
    {[bids |-> DeepSide(b, 96000, 0 - 10), asks |-> DeepSide(a, 96010, 10)] :
        b \in SizeSeqs, a \in SizeSeqs}

DeepCalls ==
    {[fn |-> "analyzeOrderBook", book |-> b, whaleThreshold |-> WhaleThreshold("BTC")] :
        b \in DeepBooks}

\* Books given to detectLevels on its own. The scenario book holds 12 BTC
\* at 96000; the ladders hold more price buckets than detectLevels returns,
\* the last one further than 5% from the best bid; the offset book's prices
\* fall between bucket centres.
ScenarioBook == [bids |-> <<Order(96000, 12)>>, asks |-> <<Order(96100, 12)>>]

BtcLadder ==
    [bids |-> <<Order(96000, 3), Order(95900, 8), Order(95800, 1), Order(95700, 25),
                Order(95600, 4), Order(95500, 6), Order(90000, 30)>>,
     asks |-> <<Order(96100, 2), Order(96200, 9), Order(96300, 1), Order(96400, 22),
                Order(96500, 5), Order(97000, 4), Order(102000, 30)>>]

BtcOffset ==
    [bids |-> <<Order(96040, 5), Order(95960, 5), Order(95740, 3)>>,
     asks |-> <<Order(96140, 5), Order(96960, 7)>>]

EthLadder ==
    [bids |-> <<Order(3300, 61), Order(3290, 33), Order(3280, 250), Order(3270, 7),
                Order(3260, 99), Order(3250, 15), Order(3100, 500)>>,
     asks |-> <<Order(3310, 45), Order(3320, 61), Order(3330, 3), Order(3340, 120),
                Order(3350, 77), Order(3400, 9), Order(3500, 300)>>]

\* A book whose bid side is empty.
AsksOnlyBook == [bids |-> <<>>, asks |-> <<Order(96100, 2), Order(102000, 30)>>]

LevelBooks(asset) ==
    IF asset = "BTC"
    THEN {NULL, EmptyBook, ScenarioBook, BtcLadder, BtcOffset, AsksOnlyBook}
    ELSE {NULL, EthBookHL, EthLadder}

LevelCalls ==
    UNION {{[fn |-> "detectLevels", hlBook |-> h, okxBook |-> o, krakenBook |-> k,
             side |-> sd, asset |-> a] :
                h \in LevelBooks(a), o \in LevelBooks(a), k \in LevelBooks(a),
                sd \in {"bids", "asks"}} : a \in {"BTC", "ETH"}}

Trends == {"BULLISH", "BEARISH", "NEUTRAL"}

Averages == {(k * Scale) \div AvgSteps : k \in (0 - AvgSteps)..AvgSteps}

\* +0.101 and -0.101: averages just beyond the action threshold.
NearThreshold == {(101 * Scale) \div 1000, 0 - ((101 * Scale) \div 1000)}

\* A venue's data: absent, bid-heavy, ask-heavy, that of a book with no
\* asks (price 0, imbalance 1), or slightly bid-heavy (imbalance 0.05).
FnVenueData ==
    {NULL,
     ExchangeDataOf(Analysis(BtcBookHL, "BTC")),
     ExchangeDataOf(Analysis([bids |-> <<Order(96000, 2)>>,
                              asks |-> <<Order(96100, 6)>>], "BTC")),
     ExchangeDataOf(Analysis([bids |-> <<Order(96000, 2)>>, asks |-> <<>>], "BTC")),
     ExchangeDataOf(Analysis([bids |-> <<Order(96000, 21)>>,
                              asks |-> <<Order(96100, 19)>>], "BTC"))}

\* Whale orders and levels given to generateSignal: none, or those of two
\* bid-heavy BTC books.
SampleWhales ==
    TaggedWhales(Analysis(BtcBookHL, "BTC"), "Hyperliquid")
        \o TaggedWhales(Analysis(BtcBookOKX, "BTC"), "OKX")

SampleSupport == detectLevels(BtcBookHL, BtcBookOKX, NULL, "bids", "BTC")

SampleResistance == detectLevels(BtcBookHL, BtcBookOKX, NULL, "asks", "BTC")

SignalCalls ==
    {[fn |-> "generateSignal", asset |-> "BTC",
      hlData |-> hl, okxData |-> okx, krakenData |-> kraken,
      whaleOrders |-> IF extras THEN SampleWhales ELSE <<>>,
      supportLevels |-> IF extras THEN SampleSupport ELSE <<>>,
      resistanceLevels |-> IF extras THEN SampleResistance ELSE <<>>,
      imbalance15m |-> avg, trend |-> trend] :
        hl \in FnVenueData, okx \in FnVenueData, kraken \in FnVenueData,
        extras \in BOOLEAN, avg \in Averages \cup NearThreshold, trend \in Trends}

\* A book of 21 levels a side. In units of the asset's whale threshold t the
\* sizes are: level 1 exactly t, level 3 above it, level 20 above it, level 21
\* (beyond the whale window) above it, every other level 0.4 t.
WhaleSide(asset, first, step) ==
    LET t == WhaleThreshold(asset)
    IN  SideOf([k \in 1..(WhaleLevels + 1) |->
                    IF k = 1 THEN t
                    ELSE IF k = 3 THEN t + 3 * (t \div 5)
                    ELSE IF k = WhaleLevels THEN t + (t \div 5)
                    ELSE IF k = WhaleLevels + 1 THEN 2 * t - (t \div 5)
                    ELSE 2 * (t \div 5)], first, step)

WhaleBook(asset) ==
    IF asset = "BTC"
    THEN [bids |-> WhaleSide(asset, 96000, 0 - 10),
          asks |-> WhaleSide(asset, 96010, 10)]
    ELSE [bids |-> WhaleSide(asset, 3300, 0 - 1),
          asks |-> WhaleSide(asset, 3301, 1)]

\* A book of two levels a side: a bid above the threshold over one below it,
\* an ask below the threshold under one of exactly the threshold.
ShortWhaleBook(asset, offset) ==
    LET t == WhaleThreshold(asset)
        first == (IF asset = "BTC" THEN 96000 ELSE 3300) + offset
        step == IF asset = "BTC" THEN 10 ELSE 1
    IN  [bids |-> <<Order(first, t + (t \div 5)), Order(first - step, 2 * (t \div 5))>>,
         asks |-> <<Order(first + step, 4 * (t \div 5)), Order(first + 2 * step, t)>>]

\* generateSignal as the passes call it: its arguments derived from the three
\* books of one asset, each venue's book missing or present.
PipelineCalls ==
    {[fn |-> "generateSignal", asset |-> a,
      hlBook |-> hl, okxBook |-> okx, krakenBook |-> kraken,
      imbalance15m |-> 0, trend |-> "NEUTRAL"] @@ AssetInputs(a, hl, okx, kraken) :
        <<a, hl, okx, kraken>> \in
            UNION {{a2} \X {NULL, WhaleBook(a2)} \X {NULL, ShortWhaleBook(a2, 2)}
                        \X {NULL, ShortWhaleBook(a2, 0 - 2)} : a2 \in {"BTC", "ETH"}}}

\* Most readings inside the 15-minute window of a history given to
\* calculateTrend on its own.
MaxWindow == 5

\* -0.10, 0, 0.05 and 0.10
TrendValues == {0 - (Scale \div 10), 0, Scale \div 20, Scale \div 10}

HistoryEntry(age, btc) == [age |-> age, btcImbalance |-> btc, ethImbalance |-> 0 - btc]

\* Readings one minute apart, the last one taken now.
WindowOf(values) ==
    [i \in 1..Len(values) |-> HistoryEntry(Len(values) - i, values[i])]

\* Before the window: nothing, one strong reading exactly 15 minutes old, or
\* two strong readings 19 and 15 minutes old.
OldEntries ==
    {<<>>, <<HistoryEntry(FifteenMin, Scale \div 2)>>,
     <<HistoryEntry(FifteenMin, 0 - (Scale \div 2))>>,
     <<HistoryEntry(TwentyMin - 1, Scale \div 2), HistoryEntry(FifteenMin, Scale \div 2)>>}

\* Ten readings, eight of 0.0875 and two of 0: their mean is 0.07.
ScenarioHistory ==
    WindowOf([i \in 1..10 |-> IF i \in {3, 7} THEN 0 ELSE (7 * Scale) \div 80])

TrendHistories ==
    {old \o WindowOf(values) :
        old \in OldEntries,
        values \in UNION {[1..n -> TrendValues] : n \in 0..MaxWindow}}
    \cup {ScenarioHistory}

TrendCalls ==
    {[fn |-> "calculateTrend", history |-> h, asset |-> a] :
        h \in TrendHistories, a \in {"btc", "eth"}}

\* Most whale orders given to calculateWhaleConsensus on its own.
MaxWhales == 3

WhaleKinds ==
    [exchange : {"Hyperliquid", "OKX", "Kraken"}, side : {"BID", "ASK"},
     price : {96000}, size : {5, 10}]

WhaleCalls ==
    {[fn |-> "calculateWhaleConsensus", whaleOrders |-> w] :
        w \in UNION {[1..n -> WhaleKinds] : n \in 0..MaxWhales}}

\* ------------------------------------------------------ enrichment feeds
\*
\* A lookup reads the feed's key from the KV cache, returns the cached record
\* while it is young enough, and refetches otherwise. A record is
\* [data, age]: age is Date.now() - timestamp in seconds, and data names where
\* the numbers came from ("cached", "fetched", or the defaults the code
\* substitutes). kv = "down" is a KV store whose get rejects. outcome is that
\* of the refetch: "ok", "unusable" (a body without the expected data) or
\* "throws" (fetch or json() rejects). A lookup resolves to a value, with the
\* record it put in the cache (NULL if none) and whether it issued an
\* upstream fetch, or rejects.

\* Date.now() - cached.timestamp < 60000
CacheSeconds == 60
\* Date.now() - cached.lastUpdated < 3600000
OnChainCacheSeconds == 3600

\* A lookup that refetches whatever the age of the cached record.
fetchFundingRatesUncached(kv, cached, outcome) ==
    IF kv = "down" THEN [rejected |-> TRUE]
    ELSE IF outcome = "ok"
    THEN [rejected |-> FALSE, fetch |-> TRUE,
          value |-> [data |-> "fetched", age |-> 0],
          put |-> [data |-> "fetched", age |-> 0]]
    ELSE [rejected |-> FALSE, fetch |-> TRUE, value |-> cached, put |-> NULL]

fetchFundingRates(kv, cached, outcome) ==
    IF kv = "down" THEN [rejected |-> TRUE]
    ELSE IF cached # NULL /\ cached.age < CacheSeconds
    THEN [rejected |-> FALSE, fetch |-> FALSE, value |-> cached, put |-> NULL]
    ELSE IF outcome = "ok"
    THEN [rejected |-> FALSE, fetch |-> TRUE,
          value |-> [data |-> "fetched", age |-> 0],
          put |-> [data |-> "fetched", age |-> 0]]
    \* return cached, after the if and in the catch
    ELSE [rejected |-> FALSE, fetch |-> TRUE, value |-> cached, put |-> NULL]

\* fetchMarketData (76-116) and fetchMetalsData (234-263) are, statement
\* for statement, fetchFundingRates on their own key and URL.
fetchMarketData(kv, cached, outcome) == fetchFundingRates(kv, cached, outcome)

fetchMetalsData(kv, cached, outcome) == fetchFundingRates(kv, cached, outcome)

\* parseFloat(btcData.data?.[0]?.[1] || '1'): a body without data gives the
\* ratio 1, and the record built from it is cached and returned.
fetchLongShortRatio(kv, cached, outcome) ==
    IF kv = "down" THEN [rejected |-> TRUE]
    ELSE IF cached # NULL /\ cached.age < CacheSeconds
    THEN [rejected |-> FALSE, fetch |-> FALSE, value |-> cached, put |-> NULL]
    ELSE IF outcome = "throws"
    THEN [rejected |-> FALSE, fetch |-> TRUE, value |-> cached, put |-> NULL]
    ELSE [rejected |-> FALSE, fetch |-> TRUE,
          value |-> [data |-> IF outcome = "ok" THEN "fetched" ELSE "defaults", age |-> 0],
          put |-> [data |-> IF outcome = "ok" THEN "fetched" ELSE "defaults", age |-> 0]]

\* parseFloat(okxBtcData.data?.[0]?.oiUsd || '0'), markPx || '96000': a body
\* without data gives zero open interest, cached and returned.
fetchOpenInterest(kv, cached, outcome) ==
    IF kv = "down" THEN [rejected |-> TRUE]
    ELSE IF cached # NULL /\ cached.age < CacheSeconds
    THEN [rejected |-> FALSE, fetch |-> FALSE, value |-> cached, put |-> NULL]
    ELSE IF outcome = "throws"
    THEN [rejected |-> FALSE, fetch |-> TRUE, value |-> cached, put |-> NULL]
    ELSE [rejected |-> FALSE, fetch |-> TRUE,
          value |-> [data |-> IF outcome = "ok" THEN "fetched" ELSE "defaults", age |-> 0],
          put |-> [data |-> IF outcome = "ok" THEN "fetched" ELSE "defaults", age |-> 0]]

\* The four CryptoQuant fetches return null when they fail or get an
\* unusable body; btcLeverage || cached?.btcLeverageRatio || 0, with
\* lastUpdated: Date.now(), is cached and returned in every case.
fetchOnChainData(kv, cached, outcome) ==
    IF kv = "down" THEN [rejected |-> TRUE]
    ELSE IF cached # NULL /\ cached.age < OnChainCacheSeconds
    THEN [rejected |-> FALSE, fetch |-> FALSE, value |-> cached, put |-> NULL]
    ELSE LET data == [data |-> IF outcome = "ok" THEN "fetched"
                               ELSE IF cached # NULL THEN cached.data
                               ELSE "defaults",
                      age |-> 0]
         IN  [rejected |-> FALSE, fetch |-> TRUE, value |-> data, put |-> data]

\* The lookups of the six feeds, by the key they have in the enriched read.
Feeds == {"onChain", "metals", "funding", "market", "openInterest", "longShort"}

CachedRecords ==
    {NULL} \cup {[data |-> "cached", age |-> a] :
                    a \in {CacheSeconds \div 2, CacheSeconds, CacheSeconds + 30,
                            OnChainCacheSeconds, OnChainCacheSeconds + 1800}}

FeedCalls ==
    {[fn |-> "lookup", feed |-> f, kv |-> kv, cached |-> c, outcome |-> o] :
        f \in Feeds, kv \in {"up", "down"}, c \in CachedRecords,
        o \in {"ok", "unusable", "throws"}}

\* ------------------------------------------- default.fetch: /api/data
\*
\* The worker awaits the actor's read and the six lookups together.
\* doResponse is the actor's response ([rejected |-> TRUE] if stub.fetch
\* rejects, else its JSON body); lookups gives each feed's lookup, resolved
\* or rejected.

\* The enriched read with the lookups awaited bare: one rejection rejects
\* Promise.all.
apiDataUncaught(doResponse, lookups) ==
    IF doResponse.rejected \/ \E f \in DOMAIN lookups : lookups[f].rejected
    THEN [error |-> TRUE]
    ELSE [error |-> FALSE,
          body  |-> [f \in DOMAIN lookups |-> lookups[f].value] @@ doResponse.body]

\* Promise.all([stub.fetch(request), fetchX(...).catch(() => null), ...]),
\* then { ...orderFlowData, onChain, metals, funding, market, openInterest,
\* longShort }: the enrichment keys are written after the spread. The miner
\* position index is in thousandths.
apiData(doResponse, lookups) ==
    IF doResponse.rejected THEN [error |-> TRUE]
    ELSE LET settled == [f \in DOMAIN lookups |->
                            IF lookups[f].rejected THEN NULL ELSE lookups[f].value]
             onChainData == settled.onChain
         IN  [error |-> FALSE,
              body  |->
                [onChain |->
                    IF onChainData = NULL THEN NULL
                    ELSE [btcLeverageRatio      |-> onChainData.btcLeverageRatio,
                          ethLeverageRatio      |-> onChainData.ethLeverageRatio,
                          btcMinerPositionIndex |-> onChainData.btcMinerPositionIndex,
                          minerSentiment        |->
                            IF onChainData.btcMinerPositionIndex < 0 - 100
                            THEN "ACCUMULATING"
                            ELSE IF onChainData.btcMinerPositionIndex > 100
                            THEN "DISTRIBUTING"
                            ELSE "NEUTRAL",
                          minerCompanies        |-> onChainData.minerCompanies],
                 metals       |-> settled.metals,
                 funding      |-> settled.funding,
                 market       |-> settled.market,
                 openInterest |-> settled.openInterest,
                 longShort    |-> settled.longShort]
                    @@ doResponse.body]

\* What a lookup can hand to the enriched read: a rejection, null, or a
\* record of its feed.
LookupResults(feed) ==
    {[rejected |-> TRUE],
     [rejected |-> FALSE, value |-> NULL, put |-> NULL],
     [rejected |-> FALSE, put |-> NULL,
      value |-> IF feed = "onChain"
                THEN [btcLeverageRatio |-> 180, ethLeverageRatio |-> 400,
                      btcMinerPositionIndex |-> 0 - 200, minerCompanies |-> <<>>,
                      lastUpdated |-> 0]
                ELSE [data |-> "fetched", age |-> 0]]}

ApiDataCalls ==
    {[fn |-> "apiData", doResponse |-> d, lookups |-> l] :
        d \in {[rejected |-> TRUE],
               [rejected |-> FALSE, body |-> Stringify(fetchAllData(AllPresent))],
               [rejected |-> FALSE, body |-> Stringify(fetchAllData(AllAbsent))]},
        l \in [onChain : LookupResults("onChain"), metals : LookupResults("metals"),
               funding : LookupResults("funding"), market : LookupResults("market"),
               openInterest : LookupResults("openInterest"),
               longShort : LookupResults("longShort")]}

\* Latest reading of the clock (Date.now()) between two invocations of
\* generateSignal on the same inputs; the clock never runs backwards.
MaxClock == 1

RecomputeCalls ==
    {[c EXCEPT !.fn = "recompute"] :
        c \in {x \in SignalCalls :
                    /\ x.trend = "BULLISH"
                    /\ x.whaleOrders # <<>>
                    /\ x.imbalance15m \in {0, (3 * Scale) \div 20}}}

FnInit ==
    /\ Constructed
    /\ call \in BookCalls \cup DeepCalls \cup SignalCalls \cup TrendCalls
                \cup WhaleCalls \cup LevelCalls \cup RecomputeCalls \cup FeedCalls
                \cup ApiDataCalls \cup PipelineCalls
    /\ ret = NULL

ApplyAnalyzeOrderBook ==
    /\ call.fn = "analyzeOrderBook"
    /\ ret = NULL
    /\ ret' = analyzeOrderBook(call.book, call.whaleThreshold)
    /\ UNCHANGED <<actor, call>>

ApplyGenerateSignal ==
    /\ call.fn = "generateSignal"
    /\ ret = NULL
    /\ ret' = generateSignal(call.asset, call.hlData, call.okxData, call.krakenData,
                             call.whaleOrders, call.supportLevels,
                             call.resistanceLevels, call.imbalance15m, call.trend)
    /\ UNCHANGED <<actor, call>>

ApplyCalculateTrend ==
    /\ call.fn = "calculateTrend"
    /\ ret = NULL
    /\ ret' = calculateTrend(call.history, call.asset)
    /\ UNCHANGED <<actor, call>>

ApplyCalculateWhaleConsensus ==
    /\ call.fn = "calculateWhaleConsensus"
    /\ ret = NULL
    /\ ret' = calculateWhaleConsensus(call.whaleOrders)
    /\ UNCHANGED <<actor, call>>

ApplyDetectLevels ==
    /\ call.fn = "detectLevels"
    /\ ret = NULL
    /\ ret' = [levels |-> detectLevels(call.hlBook, call.okxBook, call.krakenBook,
                                        call.side, call.asset)]
    /\ UNCHANGED <<actor, call>>

\* One of two invocations of generateSignal on the same frozen inputs.
InvokeSynthesizer ==
    /\ call.fn = "recompute"
    /\ \E outputs \in {IF ret = NULL THEN <<>> ELSE ret.outputs} :
       \E now \in 0..MaxClock :
        /\ Len(outputs) < 2
        /\ outputs # <<>> => now >= outputs[Len(outputs)].timestamp
        /\ ret' = [outputs |->
                    Append(outputs,
                           generateSignalAt(now, "BTC", call.hlData, call.okxData,
                                            call.krakenData, call.whaleOrders,
                                            call.supportLevels, call.resistanceLevels,
                                            call.imbalance15m, call.trend))]
    /\ UNCHANGED <<actor, call>>

ApplyFeedLookup ==
    /\ call.fn = "lookup"
    /\ ret = NULL
    /\ ret' = CASE call.feed = "funding" ->
                        fetchFundingRates(call.kv, call.cached, call.outcome)
                [] call.feed = "market" ->
                        fetchMarketData(call.kv, call.cached, call.outcome)
                [] call.feed = "metals" ->
                        fetchMetalsData(call.kv, call.cached, call.outcome)
                [] call.feed = "longShort" ->
                        fetchLongShortRatio(call.kv, call.cached, call.outcome)
                [] call.feed = "openInterest" ->
                        fetchOpenInterest(call.kv, call.cached, call.outcome)
                [] call.feed = "onChain" ->
                        fetchOnChainData(call.kv, call.cached, call.outcome)
    /\ UNCHANGED <<actor, call>>

ApplyApiData ==
    /\ call.fn = "apiData"
    /\ ret = NULL
    /\ ret' = apiData(call.doResponse, call.lookups)
    /\ UNCHANGED <<actor, call>>

FnNext ==
    \/ ApplyAnalyzeOrderBook
    \/ ApplyGenerateSignal
    \/ ApplyCalculateTrend
    \/ ApplyCalculateWhaleConsensus
    \/ ApplyDetectLevels
    \/ InvokeSynthesizer
    \/ ApplyFeedLookup
    \/ ApplyApiData

FnSpec == FnInit /\ [][FnNext]_vars

\* ------------------------------------------------------------ properties

Assets == {"BTC", "ETH"}
Venues == {"Hyperliquid", "OKX", "Kraken"}

SignalOf(pair, asset) == IF asset = "BTC" THEN pair.btc ELSE pair.eth

VenueData(sig, venue) ==
    IF venue = "Hyperliquid" THEN sig.hyperliquid
    ELSE IF venue = "OKX" THEN sig.okx ELSE sig.kraken

\* The field of a pass's results that holds one venue's book of one asset.
Feed(asset, venue) ==
    IF venue = "Hyperliquid" THEN (IF asset = "BTC" THEN "hlBtc" ELSE "hlEth")
    ELSE IF venue = "OKX" THEN (IF asset = "BTC" THEN "okxBtc" ELSE "okxEth")
    ELSE (IF asset = "BTC" THEN "krakenBtc" ELSE "krakenEth")

RECURSIVE WhalesFrom(_, _)
WhalesFrom(whaleOrders, venue) ==
    IF whaleOrders = <<>> THEN <<>>
    ELSE IF Head(whaleOrders).exchange = venue
         THEN <<Head(whaleOrders)>> \o WhalesFrom(Tail(whaleOrders), venue)
         ELSE WhalesFrom(Tail(whaleOrders), venue)

\* C1: a read that finds a stored pair returns exactly that pair, and a read
\* that finds none returns the result of a one-off pass; either way the read
\* leaves the stored pair, the history and the registry as they were.
C1_ReadLeavesState ==
    [][event'.type \in {"read", "readDone"} =>
        /\ lastData' = lastData
        /\ imbalanceHistory' = imbalanceHistory
        /\ sessions' = sessions
        /\ response' = IF event'.type = "read" THEN Stringify(lastData)
                       ELSE Stringify(fetchAllData(event'.results))]_vars

\* C2: after a poll cycle in which every venue was absent for both assets,
\* whatever the history, both stored signals have action WAIT, confidence 0,
\* trend NEUTRAL, no support or resistance level and no whale order.
C2_AbsentCycleWaits ==
    (event.type = "cycle" /\ event.results = AllAbsent) =>
        \A a \in Assets :
            /\ SignalOf(lastData, a).action = "WAIT"
            /\ SignalOf(lastData, a).confidence = 0
            /\ SignalOf(lastData, a).trend = "NEUTRAL"
            /\ SignalOf(lastData, a).supportLevels = <<>>
            /\ SignalOf(lastData, a).resistanceLevels = <<>>
            /\ SignalOf(lastData, a).whaleOrders = <<>>

\* C3: whatever the trend, the 15-minute average in [-1, 1] and the venues
\* present, the signal generateSignal returns (WAIT included) has a whole
\* confidence between 0 and 95.
C3_ConfidenceInRange ==
    (call.fn = "generateSignal" /\ ret # NULL) =>
        ret.confidence \in 0..MaxConfidence

\* C4: for every book, the one with both sides empty included, the imbalance
\* analyzeOrderBook returns lies in [-1, 1], and is 0 when both depths are 0.
C4_ImbalanceInRange ==
    (call.fn = "analyzeOrderBook" /\ ret # NULL) =>
        /\ ret.imbalance \in (0 - Scale)..Scale
        /\ (ret.bidDepth = 0 /\ ret.askDepth = 0) => ret.imbalance = 0

\* C5: a poll cycle that throws leaves the stored pair and the registry as
\* they were, sends nothing to any subscriber, and ends with the timer armed
\* for the next cycle.
C5_ThrowKeepsPair ==
    [][event'.type = "cycleThrew" =>
        /\ lastData' = lastData
        /\ sessions' = sessions
        /\ sent' = NoSends
        /\ pollPc' = "sleeping"]_vars

C5_Witness ==
    /\ event.type = "cycleThrew"
    /\ lastData # NULL
    /\ sessions # {}
    /\ pollPc = "sleeping"

SignalFields ==
    {"asset", "action", "confidence", "hyperliquid", "okx", "kraken",
     "crossExchangeSpread", "combinedImbalance", "imbalance15m", "trend",
     "whaleOrders", "whaleConsensus", "supportLevels", "resistanceLevels"}

\* Both signals of the pair carry what one pass derived from the results r.
FromResults(pair, r) ==
    \A a \in Assets :
        LET sig == SignalOf(pair, a)
            in == IF a = "BTC" THEN Inputs[r].btc ELSE Inputs[r].eth
        IN  /\ sig.asset = a
            /\ sig.hyperliquid = OrEmpty(in.hlData)
            /\ sig.okx = OrEmpty(in.okxData)
            /\ sig.kraken = OrEmpty(in.krakenData)
            /\ sig.whaleOrders = in.whaleOrders
            /\ sig.supportLevels = in.supportLevels
            /\ sig.resistanceLevels = in.resistanceLevels

\* C6: the stored pair is absent, or it is a whole BTC signal and a whole ETH
\* signal made by one pass from one set of results; and every read response
\* and every message to a subscriber is the whole stored pair.
C6_PairFromOnePass ==
    /\ lastData # NULL =>
        /\ DOMAIN lastData = {"btc", "eth"}
        /\ DOMAIN lastData.btc = SignalFields
        /\ DOMAIN lastData.eth = SignalFields
        /\ \E r \in ActorResults : FromResults(lastData, r)
    /\ response # NoMsg => (lastData # NULL /\ response = Stringify(lastData))
    /\ \A w \in WS :
        sent[w] \notin {NoMsg, Pong} =>
            (lastData # NULL /\ sent[w] = Stringify(lastData))

C6_Witness ==
    /\ event.type = "cycle"
    /\ event.results # AllPresent
    /\ Len(imbalanceHistory) >= 2
    /\ imbalanceHistory[1].btcImbalance # 0
    /\ \E w \in sessions : sent[w] = Stringify(lastData)

\* C7: never more than one poll cycle is in progress, and one is in progress
\* exactly while the loop awaits its fetches: the next cycle's fetches go out
\* only after the previous cycle's broadcast is over and the timer has fired.
C7_OneCycleAtATime ==
    /\ activeCycles \in {0, 1}
    /\ activeCycles = 1 <=> pollPc = "fetching"
    /\ activeCycles = 0 <=> pollPc = "sleeping"

C7_Witness ==
    /\ event.type = "timer"
    /\ activeCycles = 1
    /\ lastData # NULL
    /\ Len(imbalanceHistory) >= 2

\* C8: the actor starts with no stored pair and its loop already polling, and
\* the loop never ends: whenever no cycle is running (the last one completed
\* or threw), another cycle eventually begins.
C8_LoopNeverEnds ==
    /\ lastData = NULL /\ pollPc = "fetching"
    /\ (pollPc # "fetching") ~> (pollPc = "fetching")

\* A cycle begun although no cycle has ever stored a pair: every one threw.
C8_Witness ==
    /\ event.type = "timer"
    /\ pollPc = "fetching"
    /\ lastData = NULL
    /\ reads = 0
    /\ imbalanceHistory # <<>>

\* One venue's book of one asset with every other fetch failed.
Alone(r, asset, venue) ==
    AssetInputs(asset,
                IF venue = "Hyperliquid" THEN r[Feed(asset, venue)] ELSE NULL,
                IF venue = "OKX" THEN r[Feed(asset, venue)] ELSE NULL,
                IF venue = "Kraken" THEN r[Feed(asset, venue)] ELSE NULL)

AloneData(r, asset, venue) ==
    IF venue = "Hyperliquid" THEN Alone(r, asset, venue).hlData
    ELSE IF venue = "OKX" THEN Alone(r, asset, venue).okxData
    ELSE Alone(r, asset, venue).krakenData

Present(r, asset) == {v \in Venues : r[Feed(asset, v)] # NULL}

PresentImbalances(r, asset) ==
    (IF "Hyperliquid" \in Present(r, asset)
     THEN <<AloneData(r, asset, "Hyperliquid").imbalance>> ELSE <<>>)
    \o (IF "OKX" \in Present(r, asset)
        THEN <<AloneData(r, asset, "OKX").imbalance>> ELSE <<>>)
    \o (IF "Kraken" \in Present(r, asset)
        THEN <<AloneData(r, asset, "Kraken").imbalance>> ELSE <<>>)

PresentMean(r, asset) ==
    IF Present(r, asset) = {} THEN 0
    ELSE FDivCount(FSum(PresentImbalances(r, asset)), Cardinality(Present(r, asset)))

LevelsFromPresent(levels, r, asset) ==
    \A i \in 1..Len(levels) :
        /\ levels[i].exchangeCount <= Cardinality(Present(r, asset))
        /\ levels[i].exchangeCount >= 1

\* C9: whichever of the six fetches fail, the cycle completes, stores its pair
\* and sends it to every subscriber; in that pair a failed venue is a zeroed
\* ExchangeData, counts in no average, no level and no whale order, and every
\* other venue's data and whale orders are what they are without the failure.
C9_FailedFetchIsAbsent ==
    event.type = "cycle" =>
        /\ lastData # NULL
        /\ pollPc = "sleeping"
        /\ \A w \in sessions : sent[w] = Stringify(lastData)
        /\ \A a \in Assets :
            /\ \A v \in Venues :
                IF v \in Present(event.results, a)
                THEN /\ VenueData(SignalOf(lastData, a), v)
                            = AloneData(event.results, a, v)
                     /\ WhalesFrom(SignalOf(lastData, a).whaleOrders, v)
                            = Alone(event.results, a, v).whaleOrders
                ELSE /\ VenueData(SignalOf(lastData, a), v) = emptyData
                     /\ WhalesFrom(SignalOf(lastData, a).whaleOrders, v) = <<>>
            /\ SignalOf(lastData, a).combinedImbalance
                    = FRound(PresentMean(event.results, a), 1000)
            /\ imbalanceHistory[Len(imbalanceHistory)].age = 0
            /\ Reading(imbalanceHistory[Len(imbalanceHistory)],
                       IF a = "BTC" THEN "btc" ELSE "eth")
                    = PresentMean(event.results, a)
            /\ LevelsFromPresent(SignalOf(lastData, a).supportLevels, event.results, a)
            /\ LevelsFromPresent(SignalOf(lastData, a).resistanceLevels, event.results, a)

C9_Witness ==
    /\ event.type = "cycle"
    /\ event.results.hlBtc = NULL
    /\ event.results.okxEth = NULL
    /\ event.results.krakenBtc = BtcBookKraken
    /\ event.results.krakenEth = NULL
    /\ lastData.btc.whaleOrders # <<>>
    /\ lastData.btc.supportLevels # <<>>
    /\ Len(imbalanceHistory) = 2
    /\ sessions # {}

\* C10: in a cycle's broadcast every subscriber whose send fails leaves the
\* registry, every other registered subscriber receives the new pair and stays
\* registered, and the cycle ends with the pair stored and the timer armed.
C10_FailedSendRemovesOne ==
    [][event'.type = "cycle" =>
        /\ sessions' = sessions \ event'.failed
        /\ pollPc' = "sleeping"
        /\ lastData' # NULL
        /\ \E message \in {Stringify(lastData')} :
            \A w \in WS :
                sent'[w] = IF w \in sessions \ event'.failed THEN message ELSE NoMsg
        /\ lastData' = TrendPair(event'.results, imbalanceHistory')]_vars

C10_Witness ==
    /\ event.type = "cycle"
    /\ event.failed # {}
    /\ sessions # {}
    /\ \A w \in sessions : sent[w] = Stringify(lastData)

\* C11: a poll cycle that completes sends the pair it has just stored to every
\* subscriber registered when it broadcasts (the sends that throw excepted),
\* and a read that follows returns that same pair.
C11_CycleBroadcastsStored ==
    [][/\ event'.type = "cycle" =>
            \A w \in sessions \ event'.failed :
                /\ sent'[w] # NoMsg
                /\ sent'[w] = Stringify(lastData')
       /\ (event.type = "cycle" /\ event'.type = "read") =>
            \A w \in sessions : response' = sent[w]]_vars

C11_Witness ==
    /\ event.type = "cycle"
    /\ event.failed = {}
    /\ sessions = WS
    /\ \A w \in WS : sent[w] = Stringify(lastData)
    /\ Len(imbalanceHistory) >= 2

\* C12: a registration adds the subscriber to the registry and, in the same
\* step, sends it the stored pair when there is one and nothing when there is
\* none; no other subscriber is sent anything and the stored pair is unchanged.
C12_RegistrationSendsStored ==
    [][event'.type = "subscribe" =>
        /\ lastData' = lastData
        /\ \E w \in WS \ sessions :
            /\ sessions' = sessions \cup {w}
            /\ sent'[w] = IF lastData = NULL THEN NoMsg ELSE Stringify(lastData)
            /\ \A v \in WS \ {w} : sent'[v] = NoMsg]_vars

C12_Witness ==
    /\ event.type = "subscribe"
    /\ lastData # NULL
    /\ Cardinality(sessions) = 2
    /\ Cardinality({w \in sessions : sent[w] = Stringify(lastData)}) = 1

\* C13: a completed poll cycle leaves in the history only entries less than 20
\* minutes old, the last of them the one entry it appended (age 0, with the
\* BTC and ETH readings of its pass), the others the entries kept from before;
\* no cycle, completed or not, makes the history longer by more than one.
C13_HistoryWindow ==
    [][/\ event'.type = "cycle" =>
            /\ imbalanceHistory' # <<>>
            /\ \A i \in 1..Len(imbalanceHistory') :
                    imbalanceHistory'[i].age < TwentyMin
            /\ imbalanceHistory'[Len(imbalanceHistory')]
                    = [age          |-> 0,
                       btcImbalance |-> PresentMean(event'.results, "BTC"),
                       ethImbalance |-> PresentMean(event'.results, "ETH")]
            /\ \A i \in 1..(Len(imbalanceHistory') - 1) :
                    /\ imbalanceHistory'[i].age > 0
                    /\ \E j \in 1..Len(imbalanceHistory) :
                        /\ imbalanceHistory'[i].btcImbalance
                                = imbalanceHistory[j].btcImbalance
                        /\ imbalanceHistory'[i].ethImbalance
                                = imbalanceHistory[j].ethImbalance
                        /\ imbalanceHistory'[i].age > imbalanceHistory[j].age
       /\ Len(imbalanceHistory') <= Len(imbalanceHistory) + 1]_vars

C13_Witness ==
    /\ event.type = "cycle"
    /\ Len(imbalanceHistory) = 3
    /\ imbalanceHistory[1].age = 2 * MinGap
    /\ imbalanceHistory[3].age = 0

\* C14: only the poll cycle writes the history: a registration, a read (the
\* one-off pass included), a ping or other message, a close and an error all
\* leave it as it was.
C14_HistoryOneWriter ==
    [][/\ imbalanceHistory' # imbalanceHistory =>
            event'.type \in {"cycle", "cycleThrew"}
       /\ event'.type \in {"subscribe", "read", "readStart", "readDone", "ping",
                           "message", "close", "error", "timer"} =>
            imbalanceHistory' = imbalanceHistory]_vars

C14_Witness ==
    /\ event.type = "readDone"
    /\ imbalanceHistory # <<>>
    /\ lastData = fetchAllData(event.results)

\* The readings of one asset inside the 15-minute window, by their place in
\* the history.
InWindow(history) == {i \in 1..Len(history) : history[i].age < FifteenMin}

ReadingAt(history, i, asset) ==
    IF asset = "btc" THEN history[i].btcImbalance ELSE history[i].ethImbalance

RECURSIVE WindowSum(_, _, _)
WindowSum(history, asset, i) ==
    IF i > Len(history) THEN 0
    ELSE (IF i \in InWindow(history) THEN ReadingAt(history, i, asset) ELSE 0)
            + WindowSum(history, asset, i + 1)

C16_ActionRule ==
    (call.fn = "generateSignal" /\ ret # NULL) =>
        /\ ret.action = "LONG" <=>
                (call.trend = "BULLISH" /\ 10 * call.imbalance15m > Scale)
        /\ ret.action = "SHORT" <=>
                (call.trend = "BEARISH" /\ 10 * call.imbalance15m < 0 - Scale)
        /\ ret.action = "WAIT" <=>
                ~ \/ (call.trend = "BULLISH" /\ 10 * call.imbalance15m > Scale)
                  \/ (call.trend = "BEARISH" /\ 10 * call.imbalance15m < 0 - Scale)

\* LONG against three ask-heavy venues, with whale orders and levels given.
C16_Witness ==
    /\ call.fn = "generateSignal"
    /\ ret # NULL
    /\ ret.action = "LONG"
    /\ call.hlData # NULL /\ call.okxData # NULL /\ call.krakenData # NULL
    /\ ret.combinedImbalance < 0
    /\ call.whaleOrders # <<>>
    /\ call.supportLevels # <<>>

RECURSIVE WhaleSize(_, _, _)
WhaleSize(whaleOrders, side, i) ==
    IF i > Len(whaleOrders) THEN 0
    ELSE (IF whaleOrders[i].side = side THEN whaleOrders[i].size ELSE 0)
            + WhaleSize(whaleOrders, side, i + 1)

WhaleVenues(whaleOrders, side) ==
    {whaleOrders[i].exchange :
        i \in {j \in 1..Len(whaleOrders) : whaleOrders[j].side = side}}

\* C17: calculateWhaleConsensus returns LONG exactly when the bid share
\* bidSize / (bidSize + askSize) is above 0.6 and bid-side whales come from at
\* least 2 venues, SHORT exactly when the share is below 0.4 and ask-side
\* whales come from at least 2 venues, NEUTRAL otherwise, no whale order at
\* all included.
C17_WhaleConsensusSignal ==
    (call.fn = "calculateWhaleConsensus" /\ ret # NULL) =>
        LET bidSize == WhaleSize(call.whaleOrders, "BID", 1)
            askSize == WhaleSize(call.whaleOrders, "ASK", 1)
            long == /\ bidSize + askSize > 0
                    /\ 10 * bidSize > 6 * (bidSize + askSize)
                    /\ Cardinality(WhaleVenues(call.whaleOrders, "BID")) >= 2
            short == /\ bidSize + askSize > 0
                     /\ 10 * bidSize < 4 * (bidSize + askSize)
                     /\ Cardinality(WhaleVenues(call.whaleOrders, "ASK")) >= 2
        IN  /\ ret.signal = "LONG" <=> long
            /\ ret.signal = "SHORT" <=> short
            /\ ret.signal = "NEUTRAL" <=> (~long /\ ~short)
            /\ call.whaleOrders = <<>> => ret.signal = "NEUTRAL"

C17_Witness ==
    /\ call.fn = "calculateWhaleConsensus"
    /\ ret # NULL
    /\ ret.signal = "SHORT"
    /\ ret.bidSize > 0
    /\ Len(call.whaleOrders) = 3

\* The levels a detectLevels call has returned.
Levels == IF call.fn = "detectLevels" /\ ret # NULL THEN ret.levels ELSE <<>>

\* C18: for every combination of present and absent venue books, side and
\* asset, detectLevels returns at most five levels, in order of
\* non-increasing strength, each strength between 0 and 100.
C18_AtMostFiveSorted ==
    /\ Len(Levels) <= 5
    /\ \A i \in DOMAIN Levels : Levels[i].strength \in 0..100
    /\ \A i \in DOMAIN Levels, j \in DOMAIN Levels :
            i < j => Levels[i].strength >= Levels[j].strength

\* All three venues present with more price buckets than are returned:
\* five levels come back, the first stronger than the last.
C18_Witness ==
    /\ call.fn = "detectLevels"
    /\ call.hlBook # NULL /\ call.okxBook # NULL /\ call.krakenBook # NULL
    /\ ret # NULL
    /\ Len(Levels) = 5
    /\ Levels[1].strength > Levels[5].strength

\* The orders of the call's side in one venue's book.
SideOrders(book) == IF book = NULL THEN <<>> ELSE Orders(book, call.side)

Bucket(price) == RoundDiv(price, RoundTo(call.asset)) * RoundTo(call.asset)

RECURSIVE SizeIn(_, _)
SizeIn(orders, price) ==
    IF orders = <<>> THEN 0
    ELSE (IF Bucket(Head(orders).price) = price THEN Head(orders).size ELSE 0)
            + SizeIn(Tail(orders), price)

CallBooks == <<call.hlBook, call.okxBook, call.krakenBook>>

\* Total size the three books hold in a level's bucket, and the number of
\* venues holding some of it.
SizeAt(price) ==
    SizeIn(SideOrders(CallBooks[1]), price) + SizeIn(SideOrders(CallBooks[2]), price)
        + SizeIn(SideOrders(CallBooks[3]), price)

VenuesAt(price) ==
    Cardinality({v \in 1..3 :
        \E k \in DOMAIN SideOrders(CallBooks[v]) :
            Bucket(SideOrders(CallBooks[v])[k].price) = price})

Unit == IF call.asset = "BTC" THEN 10 ELSE 100

Bonus(price) ==
    (IF VenuesAt(price) >= 2 THEN 15 ELSE 0)
    + (IF VenuesAt(price) = 3 THEN 15 ELSE 0)
    + (IF price % (IF call.asset = "BTC" THEN 1000 ELSE 100) = 0 THEN 30 ELSE 0)

ScenarioCall ==
    [fn |-> "detectLevels", hlBook |-> ScenarioBook, okxBook |-> ScenarioBook,
     krakenBook |-> NULL, side |-> "bids", asset |-> "BTC"]

ScenarioLevel ==
    call = ScenarioCall /\ ret # NULL
    => /\ Len(Levels) = 1
       /\ Levels[1].price = 96000
       /\ Levels[1].exchangeCount = 2
       /\ Levels[1].isRoundNumber
       /\ Levels[1].type = "wall"
       /\ Levels[1].totalSize = 24
       /\ Levels[1].strength >= 95

\* C19 as stated: a level's strength equals min(100, min(50, size / unit * 50)
\* + 15 with two venues + 15 more with three + 30 at a round number), with
\* no rounding (both sides multiplied by the unit).
C19_StrengthUnrounded ==
    /\ \A i \in DOMAIN Levels :
            Levels[i].strength * Unit =
                Min2(100 * Unit,
                     Min2(50 * Unit, SizeAt(Levels[i].price) * 50)
                        + Bonus(Levels[i].price) * Unit)
    /\ ScenarioLevel

\* C19: a level's strength equals min(100, the size term min(50, size / unit
\* * 50) rounded to the nearest whole number, halves upwards, + 15 with two
\* venues + 15 more with three + 30 at a round number); two of three BTC
\* books holding 12 each at 96000 give one level at 96000 with two venues,
\* round, a wall, of strength at least 95.
C19_StrengthRounded ==
    /\ \A i \in DOMAIN Levels :
            Levels[i].strength =
                Min2(100,
                     RoundDiv(Min2(50 * Unit, SizeAt(Levels[i].price) * 50), Unit)
                        + Bonus(Levels[i].price))
    /\ ScenarioLevel

\* A level whose size term is not a whole number: 61 ETH alone in a bucket
\* scores 31.
C19_Witness ==
    /\ call.fn = "detectLevels"
    /\ ret # NULL
    /\ \E i \in DOMAIN Levels :
        /\ SizeAt(Levels[i].price) = 61
        /\ VenuesAt(Levels[i].price) = 1
        /\ Levels[i].strength = 31 + Bonus(Levels[i].price)

\* The sum of the sizes of the first n orders.
RECURSIVE SumFirst(_, _)
SumFirst(orders, n) ==
    IF n = 0 THEN 0 ELSE orders[n].size + SumFirst(orders, n - 1)

DepthOf(orders) == SumFirst(orders, IF Len(orders) > 10 THEN 10 ELSE Len(orders))

\* C20: bidDepth and askDepth are the sums of the sizes of the first ten
\* levels of their side only, and the imbalance is computed from those two
\* sums: levels beyond the tenth contribute to neither.
C20_DepthOfFirstTen ==
    call.fn = "analyzeOrderBook" /\ ret # NULL
    => /\ ret.bidDepth = DepthOf(call.book.bids)
       /\ ret.askDepth = DepthOf(call.book.asks)
       /\ ret.imbalance =
            (IF DepthOf(call.book.bids) + DepthOf(call.book.asks) = 0 THEN NaN
             ELSE (Scale * (DepthOf(call.book.bids) - DepthOf(call.book.asks)))
                    \div (DepthOf(call.book.bids) + DepthOf(call.book.asks)))

\* A book with more than ten levels on each side, the sides differing only
\* beyond the tenth level: the depths are equal and the imbalance is 0.
C20_Witness ==
    /\ call.fn = "analyzeOrderBook"
    /\ ret # NULL
    /\ Len(call.book.bids) > 10
    /\ Len(call.book.asks) > 10
    /\ SumSizes(call.book.bids) > SumSizes(call.book.asks)
    /\ ret.bidDepth = 20
    /\ ret.askDepth = 20
    /\ ret.imbalance = 0

\* The outputs of the invocations of generateSignal on one set of inputs.
Outputs == IF call.fn = "recompute" /\ ret # NULL THEN ret.outputs ELSE <<>>

VenueInputs == [hyperliquid |-> call.hlData, okx |-> call.okxData, kraken |-> call.krakenData]

C22_FailedRefetchFallsBack ==
    /\ call.fn = "lookup"
    /\ ret # NULL
    /\ call.kv = "up"
    /\ call.outcome \in {"unusable", "throws"}
    /\ \/ call.cached = NULL
       \/ call.cached.age >= (IF call.feed = "onChain" THEN 3600 ELSE 60)
    => /\ ~ret.rejected
       /\ ret.value = call.cached

\* C23: whenever the actor's read succeeds, the enriched read returns the
\* actor's signal pair and no error, whichever lookups reject: each rejected
\* lookup's feed is null in the response, every other feed carries what its
\* lookup resolved to, and the pair is the actor's.
C23_EnrichmentNeverFailsRead ==
    call.fn = "apiData" /\ ret # NULL /\ ~call.doResponse.rejected
    => /\ ~ret.error
       /\ ret.body.btc = call.doResponse.body.btc
       /\ ret.body.eth = call.doResponse.body.eth
       /\ DOMAIN ret.body = DOMAIN call.doResponse.body \cup DOMAIN call.lookups
       /\ \A f \in DOMAIN call.lookups :
            /\ call.lookups[f].rejected => ret.body[f] = NULL
            /\ ~call.lookups[f].rejected /\ f # "onChain"
                    => ret.body[f] = call.lookups[f].value
            /\ ~call.lookups[f].rejected /\ f = "onChain" /\ call.lookups[f].value # NULL
                    => /\ ret.body[f].btcMinerPositionIndex
                            = call.lookups[f].value.btcMinerPositionIndex
                       /\ ret.body[f].minerSentiment = "ACCUMULATING"

\* The on-chain and funding lookups reject, the metals lookup resolves: the
\* response carries the actor's pair from three present venues, null for
\* the two and the metals record.
C23_Witness ==
    /\ call.fn = "apiData"
    /\ ret # NULL
    /\ ~call.doResponse.rejected
    /\ call.lookups.onChain.rejected
    /\ call.lookups.funding.rejected
    /\ ~call.lookups.metals.rejected
    /\ ~ret.error
    /\ ret.body.onChain = NULL
    /\ ret.body.funding = NULL
    /\ ret.body.metals = [data |-> "fetched", age |-> 0]
    /\ ret.body.btc.hyperliquid.price > 0

\* C24: a 'ping' from a subscriber is answered with 'pong' to that subscriber
\* and to no other, and leaves the stored pair, the history and the registry
\* as they were; any other message is answered with nothing and changes none
\* of them either.
C24_PingPongOnly ==
    [][event'.type \in {"ping", "message"} =>
        /\ lastData' = lastData
        /\ imbalanceHistory' = imbalanceHistory
        /\ sessions' = sessions
        /\ response' = NoMsg
        /\ event'.type = "ping" =>
                \E w \in sessions :
                    /\ sent'[w] = Pong
                    /\ \A v \in WS \ {w} : sent'[v] = NoMsg
        /\ event'.type = "message" => \A v \in WS : sent'[v] = NoMsg]_vars

\* A ping answered while two subscribers are registered and a pair is stored.
C24_Witness ==
    /\ event.type = "ping"
    /\ Cardinality(sessions) = 2
    /\ lastData # NULL
    /\ imbalanceHistory # <<>>
    /\ Cardinality({w \in WS : sent[w] = Pong}) = 1

\* C25: a synchronous read that began its one-off fetch while no pair was
\* stored and finishes right after a poll cycle has stored its pair does not
\* replace that pair: the pair a cycle stored is replaced by a later cycle
\* only.
C25_ReadKeepsCyclePair ==
    [][event.type = "cycle" /\ event'.type = "readDone" => lastData' = lastData]_vars

\* The reference price of a detectLevels call: the best bid of the first
\* venue, in the order Hyperliquid, OKX, Kraken, whose book has a bid; 0 if
\* no book has one.
RECURSIVE FirstBid(_)
FirstBid(books) ==
    IF books = <<>> THEN 0
    ELSE IF Head(books) # NULL /\ Head(books).bids # <<>>
         THEN Head(books).bids[1].price
         ELSE FirstBid(Tail(books))

Reference == FirstBid(CallBooks)

\* The buckets of the call's side over the three books.
SideBuckets ==
    UNION {{Bucket(SideOrders(CallBooks[v])[k].price) :
                k \in DOMAIN SideOrders(CallBooks[v])} : v \in 1..3}

\* C26 as stated: every level detectLevels returns has a price within 5% of
\* the reference price.
C26_AlwaysWithinFivePercent ==
    \A i \in DOMAIN Levels :
        20 * Abs(Levels[i].price - Reference) <= Reference

\* C26: when some venue's book has a bid, every level detectLevels returns,
\* for either side, has a price within 5% of the reference price, which is
\* the best bid of the first venue (Hyperliquid, OKX, Kraken) that has one;
\* when no book has a bid there is no reference and no bucket is discarded:
\* every bucket is a level, up to the five returned.
C26_WithinFivePercentOfFirstBid ==
    call.fn = "detectLevels" /\ ret # NULL
    => IF Reference > 0
       THEN \A i \in DOMAIN Levels :
                20 * Abs(Levels[i].price - Reference) <= Reference
       ELSE /\ {Levels[i].price : i \in DOMAIN Levels} \subseteq SideBuckets
            /\ Len(Levels) = Min2(5, Cardinality(SideBuckets))

\* The books hold a bucket further than 5% from the reference, levels are
\* returned and that bucket is not among them.
C26_Witness ==
    /\ call.fn = "detectLevels"
    /\ ret # NULL
    /\ Reference = 96000
    /\ Len(Levels) = 5
    /\ \E b \in SideBuckets :
        /\ 20 * Abs(b - Reference) > Reference
        /\ \A i \in DOMAIN Levels : Levels[i].price # b

\* The whale orders of the winning side of a consensus.
Winners ==
    {i \in 1..Len(call.whaleOrders) :
        call.whaleOrders[i].side = (IF ret.signal = "LONG" THEN "BID" ELSE "ASK")}

\* C27: for a LONG or SHORT consensus the strength is min(100, r + 15 for
\* each distinct venue on the winning side + 10 if the winning side has at
\* least 3 whale orders + 15 if all 3 venues are on the winning side), r
\* being |bidRatio - 0.5| x 100 rounded to the nearest whole number, halves
\* upwards; the strength is in [0, 100]; a NEUTRAL consensus has strength 0.
C27_ConsensusStrength ==
    call.fn = "calculateWhaleConsensus" /\ ret # NULL
    => /\ ret.strength \in 0..100
       /\ ret.signal = "NEUTRAL" => ret.strength = 0
       /\ ret.signal # "NEUTRAL" =>
            LET bidSize == WhaleSize(call.whaleOrders, "BID", 1)
                total == bidSize + WhaleSize(call.whaleOrders, "ASK", 1)
                venues == Cardinality({call.whaleOrders[i].exchange : i \in Winners})
            IN  \E r \in 0..50 :
                    /\ 2 * total * r - total <= 2 * Abs(100 * bidSize - 50 * total)
                    /\ 2 * Abs(100 * bidSize - 50 * total) < 2 * total * r + total
                    /\ ret.strength =
                        Min2(100, r + 15 * venues
                                    + (IF Cardinality(Winners) >= 3 THEN 10 ELSE 0)
                                    + (IF venues = 3 THEN 15 ELSE 0))

\* Two bid whales of 5 from two venues against one ask whale of 5: the bid
\* share 2/3 gives 16.67, rounded to 17, and 30 for the two venues.
C27_Witness ==
    /\ call.fn = "calculateWhaleConsensus"
    /\ ret # NULL
    /\ ret.signal = "LONG"
    /\ ret.bidSize = 10
    /\ ret.askSize = 5
    /\ ret.exchangesWithBids = 2
    /\ ret.strength = 47

\* The venues whose data a generateSignal call was given, and the sum of
\* their imbalances.
GivenVenues ==
    {v \in {"hlData", "okxData", "krakenData"} : call[v] # NULL}

RECURSIVE SumOver(_)
SumOver(venues) ==
    IF venues = {} THEN 0
    ELSE LET v == CHOOSE x \in venues : TRUE
         IN  call[v].imbalance + SumOver(venues \ {v})

\* C28: the combined imbalance of a Signal is the arithmetic mean of the
\* imbalances of the venues that returned data only (reported, as every
\* Signal's, to the nearest thousandth) and 0 when none did; the spread is 0
\* whenever Hyperliquid or OKX is absent or has price 0.
C28_CombinedMeanOfPresent ==
    call.fn = "generateSignal" /\ ret # NULL
    => /\ GivenVenues = {} => ret.combinedImbalance = 0
       /\ GivenVenues # {} =>
            2 * Abs(ret.combinedImbalance * Scale * Cardinality(GivenVenues)
                        - 1000 * SumOver(GivenVenues))
                <= Scale * Cardinality(GivenVenues)
       /\ (\/ call.hlData = NULL
           \/ call.okxData = NULL
           \/ call.hlData.price = 0
           \/ call.okxData.price = 0) => ret.crossExchangeSpread = 0

\* Hyperliquid at imbalance 0.5 and OKX at imbalance 1 with price 0, Kraken
\* absent: the mean of the two is 0.75 and the spread 0.
C28_Witness ==
    /\ call.fn = "generateSignal"
    /\ ret # NULL
    /\ GivenVenues = {"hlData", "okxData"}
    /\ call.hlData.price > 0
    /\ call.okxData.price = 0
    /\ ret.combinedImbalance = 750
    /\ ret.crossExchangeSpread = 0

\* The confidence of a directional signal before the output's rounding, in
\* fixed point: the start, then the three bonuses, each clamped to 95.
Clamp95(x) == Min2(95 * Scale, x)

Direction == IF ret.action = "LONG" THEN 1 ELSE 0 - 1

AgreeingVenues == {v \in GivenVenues : Direction * call[v].imbalance > 0}

Bonus1(c) ==
    IF /\ GivenVenues # {}
       /\ 10 * Direction * SumOver(GivenVenues) > Scale * Cardinality(GivenVenues)
    THEN Clamp95(c + 10 * Scale) ELSE c

Bonus2(c) == IF Cardinality(AgreeingVenues) >= 2 THEN Clamp95(c + 10 * Scale) ELSE c

Bonus3(c) == IF Cardinality(AgreeingVenues) = 3 THEN Clamp95(c + 5 * Scale) ELSE c

\* C29: when the action is LONG or SHORT the confidence is min(95, 50 +
\* |avg| x 150), plus 10 only if the combined imbalance of the present venues
\* is beyond 0.1 in the action's direction, plus 10 only if at least 2
\* present venues have an imbalance in that direction, plus 5 only if all 3
\* do, clamped to 95 after each step, an absent venue never agreeing; when
\* the action is WAIT it is |avg| x 100 with no bonus; the Signal reports it
\* rounded to a whole number.
C29_ConfidenceBonuses ==
    call.fn = "generateSignal" /\ ret # NULL
    => \E c \in {IF ret.action = "WAIT" THEN 100 * Abs(call.imbalance15m)
                 ELSE Bonus3(Bonus2(Bonus1(
                        Clamp95(50 * Scale + 150 * Abs(call.imbalance15m)))))} :
        /\ 2 * Scale * ret.confidence - Scale <= 2 * c
        /\ 2 * c < 2 * Scale * ret.confidence + Scale

\* LONG on an average of 0.15 with two agreeing venues and the third absent:
\* 72.5 + 10 + 10 = 92.5, reported as 93, the absent venue earning no +5.
C29_Witness ==
    /\ call.fn = "generateSignal"
    /\ ret # NULL
    /\ ret.action = "LONG"
    /\ 20 * call.imbalance15m = 3 * Scale
    /\ call.krakenData = NULL
    /\ Cardinality(AgreeingVenues) = 2
    /\ ret.confidence = 93

\* The books a pipeline call derived its arguments from, by venue name, and
\* the places in them a whale can come from: a present venue, a side, and
\* one of the first 20 levels of that side holding at least the asset's
\* threshold.
PipelineBooks ==
    [Hyperliquid |-> call.hlBook, OKX |-> call.okxBook, Kraken |-> call.krakenBook]

SideOrdersOf(book, side) == IF side = "BID" THEN book.bids ELSE book.asks

WhaleSlots ==
    {slot \in {v \in DOMAIN PipelineBooks : PipelineBooks[v] # NULL}
                \X {"BID", "ASK"} \X (1..20) :
        /\ slot[3] <= Len(SideOrdersOf(PipelineBooks[slot[1]], slot[2]))
        /\ SideOrdersOf(PipelineBooks[slot[1]], slot[2])[slot[3]].size
                >= (IF call.asset = "BTC" THEN 5 ELSE 50)}

WhaleAt(slot) ==
    LET o == SideOrdersOf(PipelineBooks[slot[1]], slot[2])[slot[3]]
    IN  [exchange |-> slot[1], side |-> slot[2], price |-> o.price, size |-> o.size]

\* C30: the whale list of a Signal holds exactly the orders among the first
\* 20 levels of each side of each present venue's book whose size is at
\* least the asset's threshold (5 for BTC, 50 for ETH), each once, tagged
\* with its side and its venue; nothing below the threshold and nothing
\* beyond level 20 is in it.
C30_WhaleListExact ==
    call.fn = "generateSignal" /\ "hlBook" \in DOMAIN call /\ ret # NULL
    => /\ {ret.whaleOrders[i] : i \in DOMAIN ret.whaleOrders}
            = {WhaleAt(slot) : slot \in WhaleSlots}
       /\ Len(ret.whaleOrders) = Cardinality(WhaleSlots)

\* An ETH Signal from Hyperliquid and Kraken, OKX missing: three whales a
\* side from Hyperliquid, the 90 at its level 21 and its 20s left out, and
\* one a side from Kraken, the ask of exactly 50 among them.
C30_Witness ==
    /\ call.fn = "generateSignal"
    /\ "hlBook" \in DOMAIN call
    /\ ret # NULL
    /\ call.asset = "ETH"
    /\ call.hlBook # NULL /\ call.okxBook = NULL /\ call.krakenBook # NULL
    /\ Len(call.hlBook.bids) > 20
    /\ call.hlBook.bids[21].size = 90
    /\ call.hlBook.bids[2].size = 20
    /\ Len(ret.whaleOrders) = 8
    /\ \E i \in DOMAIN ret.whaleOrders :
            ret.whaleOrders[i] = [exchange |-> "Kraken", side |-> "ASK",
                                  price |-> 3300, size |-> 50]

\* The entries of a history taken within the last 15 minutes.
WindowOnly(history) == SelectSeq(history, LAMBDA h : h.age < 15)

\* C31: the average and trend calculateTrend returns are those of the entries
\* within the last 15 minutes alone: whatever retained entries of 15 to 20
\* minutes precede them, the result is the same, and with no entry in the
\* window it is average 0 and NEUTRAL.
C31_OnlyWindowCounts ==
    call.fn = "calculateTrend" /\ ret # NULL
    => /\ \A old \in OldEntries :
            calculateTrend(old \o WindowOnly(call.history), call.asset) = ret
       /\ WindowOnly(call.history) = <<>> => ret = [avg |-> 0, trend |-> "NEUTRAL"]

\* Readings of +0.5 taken 19 and 15 minutes ago before a single reading of
\* +0.05 taken now: the result is that of the last reading alone.
C31_Witness ==
    /\ call.fn = "calculateTrend"
    /\ call.asset = "btc"
    /\ Len(call.history) = 3
    /\ call.history[1] = HistoryEntry(19, Scale \div 2)
    /\ call.history[2] = HistoryEntry(15, Scale \div 2)
    /\ call.history[3] = HistoryEntry(0, Scale \div 20)
    /\ ret = [avg |-> Scale \div 20, trend |-> "NEUTRAL"]

\* C32: the entry a completed cycle appends holds, per asset, the mean of the
\* imbalances of the venues that responded for it (0 when none did), and the
\* cycle's trend and 15-minute average are those of the history after the
\* append and trim: when the history holds the cycle's entry alone, the
\* average of the stored pair is that entry's reading.
C32_ReadingThenTrend ==
    [][event'.type = "cycle" =>
        LET h == imbalanceHistory'
            last == h[Len(h)]
        IN  /\ last.age = 0
            /\ last.btcImbalance = PresentMean(event'.results, "BTC")
            /\ last.ethImbalance = PresentMean(event'.results, "ETH")
            /\ lastData'.btc.trend = calculateTrend(h, "btc").trend
            /\ lastData'.eth.trend = calculateTrend(h, "eth").trend
            /\ lastData'.btc.imbalance15m = FRound(calculateTrend(h, "btc").avg, 1000)
            /\ lastData'.eth.imbalance15m = FRound(calculateTrend(h, "eth").avg, 1000)
            /\ Len(h) = 1 =>
                /\ lastData'.btc.imbalance15m = FRound(last.btcImbalance, 1000)
                /\ lastData'.eth.imbalance15m = FRound(last.ethImbalance, 1000)]_vars

\* A first cycle in which Kraken answers for neither asset: the entry is the
\* mean 0.5 of the two other venues, and the pair's trend is already BULLISH
\* on an average of 0.5.
C32_Witness ==
    /\ event.type = "cycle"
    /\ event.results.krakenBtc = NULL
    /\ event.results.hlBtc = BtcBookHL
    /\ event.results.okxBtc = BtcBookOKX
    /\ Len(imbalanceHistory) = 1
    /\ imbalanceHistory[1].btcImbalance = Scale \div 2
    /\ lastData.btc.imbalance15m = 500
    /\ lastData.btc.trend = "BULLISH"

\* C33: a lookup that finds a cached value younger than its feed's TTL (3600
\* seconds for the on-chain feed, 60 for the five others) returns that value,
\* issues no upstream fetch and writes nothing to the cache; a lookup that
\* fetches found no value, or one at least as old as the TTL.
C33_FreshCacheServed ==
    call.fn = "lookup" /\ ret # NULL /\ call.kv = "up"
    => \E ttl \in {IF call.feed = "onChain" THEN 3600 ELSE 60} :
        /\ call.cached # NULL /\ call.cached.age < ttl
            => /\ ~ret.rejected
               /\ ret.value = call.cached
               /\ ~ret.fetch
               /\ ret.put = NULL
        /\ ret.fetch => call.cached = NULL \/ call.cached.age >= ttl

\* The on-chain lookup finding a value 90 seconds old: stale for any other
\* feed, served from the cache here without a fetch.
C33_Witness ==
    /\ call.fn = "lookup"
    /\ call.feed = "onChain"
    /\ call.kv = "up"
    /\ call.cached # NULL
    /\ call.cached.age = 90
    /\ call.outcome = "ok"
    /\ ret # NULL
    /\ ret.value = call.cached
    /\ ~ret.fetch
    /\ ret.put = NULL

\* C34: a Signal whose action is LONG or SHORT has a confidence of at least
\* 65 and at most 95.
C34_DirectionalAtLeast65 ==
    call.fn = "generateSignal" /\ ret # NULL /\ ret.action \in {"LONG", "SHORT"}
    => ret.confidence \in 65..95

\* SHORT on an average of -0.101 with no venue present: 50 + 15.15 and no
\* bonus, reported as 65.
C34_Witness ==
    /\ call.fn = "generateSignal"
    /\ ret # NULL
    /\ ret.action = "SHORT"
    /\ 1000 * call.imbalance15m = 0 - (101 * Scale)
    /\ call.hlData = NULL /\ call.okxData = NULL /\ call.krakenData = NULL
    /\ ret.confidence = 65

\* C35: the pair a read returns from its one-off pass has, for both
\* assets, trend NEUTRAL, 15-minute average 0, action WAIT and confidence 0,
\* whatever the venues answered.
C35_OneOffPassIsNeutral ==
    event.type = "readDone"
    => /\ response = Stringify(fetchAllData(event.results))
       /\ \A sig \in {response.btc, response.eth} :
            /\ sig.trend = "NEUTRAL"
            /\ sig.imbalance15m = 0
            /\ sig.action = "WAIT"
            /\ sig.confidence = 0

\* A one-off pass over three bid-heavy books: the combined imbalance is 0.5,
\* the average 0 and the action WAIT.
C35_Witness ==
    /\ event.type = "readDone"
    /\ event.results = AllPresent
    /\ response.btc.combinedImbalance = 500
    /\ response.btc.imbalance15m = 0
    /\ response.btc.action = "WAIT"
    /\ response.eth.confidence = 0

\* C36: from the first completed cycle on the actor always holds a pair,
\* failed cycles included, and no read issues venue fetches: every read is
\* answered with the stored pair.
C36_PairNeverLost ==
    [](event.type = "cycle"
        => [](/\ lastData # NULL
              /\ event.type # "readStart"
              /\ event.type = "read" => response = Stringify(lastData)))

\* A read answered after a failed cycle: the history ends with the reading
\* of 0 the failed cycle recorded, while the stored pair still has the
\* average 0.5 of the completed cycle before it.
C36_Witness ==
    /\ event.type = "read"
    /\ response = Stringify(lastData)
    /\ Len(imbalanceHistory) = 2
    /\ imbalanceHistory[2].age = 0
    /\ imbalanceHistory[2].btcImbalance = 0
    /\ lastData.btc.imbalance15m = 500

\* C37: a subscriber enters the registry only by registering and leaves it
\* at its close, at its error and at a send to it that fails; a broadcast
\* sends nothing to a subscriber outside the registry, so a removed
\* subscriber receives no later broadcast unless it registers again.
C37_RegistryHoldsLiveSubscribers ==
    [][/\ sessions' \subseteq WS
       /\ sessions' \ sessions # {} =>
            /\ event'.type = "subscribe"
            /\ Cardinality(sessions' \ sessions) = 1
            /\ sessions \subseteq sessions'
       /\ event'.type \in {"close", "error"} =>
            /\ Cardinality(sessions \ sessions') = 1
            /\ sessions' \subseteq sessions
            /\ sent' = NoSends
       /\ event'.type = "cycle" =>
            /\ sessions' = sessions \ event'.failed
            /\ \A w \in WS \ sessions' : sent'[w] = NoMsg
       /\ event'.type \notin {"subscribe", "close", "error", "cycle"} =>
            sessions' = sessions]_vars

\* A broadcast in which the send to subscriber 1 fails: it leaves the
\* registry with nothing received, and subscriber 2 receives the pair.
C37_Witness ==
    /\ event.type = "cycle"
    /\ event.failed = {1}
    /\ sessions = {2}
    /\ sent[1] = NoMsg
    /\ sent[2] = Stringify(lastData)

====
